---- MODULE Spec2Model ----
(***************************************************************************)
(* Incremental ingestion and change detection of the Amazon scraping       *)
(* project: scraper.py (scraper_amazon, appliquer_pipelines,               *)
(* run_scraping_job), database.py (DatabaseManager) and alertes.py         *)
(* (AlerteManager, run_alerte_job).                                        *)
(*                                                                         *)
(* Representation of Python values:                                        *)
(*   - a price is a natural number of currency units, a rating (Vote) is   *)
(*     a natural number of tenths of a star (45 is 4.5);                   *)
(*   - None and the float NaN of a numeric field are the negative          *)
(*     sentinels None and NaN;                                             *)
(*   - a title is a tuple of characters, the absent title is NoTitre;      *)
(*   - a value ratio is a reduced fraction <<num, den>>, FracNone is None  *)
(*     and FracNaN is NaN.                                                 *)
(* The store is the SQLite backend (DB_TYPE defaults to 'sqlite'): the     *)
(* four tables are what the single shared connection sees.                 *)
(***************************************************************************)
EXTENDS Integers, Sequences, FiniteSets, TLC

\* ------------------------------------------------------------------ bounds
MaxJours == 2
MaxRuns == 2
MaxPage == 2
MaxPagesParam == 2

\* ------------------------------------------------------- Python / SQL values
None == -1
NaN == -2
NoTitre == <<"<None>">>
LienNone == "None"
DeviseNone == "None"
FracNone == <<0, 0>>
FracNaN == <<0, -1>>

RECURSIVE Gcd(_, _)
Gcd(a, b) == IF b = 0 THEN a ELSE Gcd(b, a % b)

Frac(n, d) == <<n \div Gcd(n, d), d \div Gcd(n, d)>>

\* pd.isna / pd.notna on a numeric cell
IsNa(v) == v = None \/ v = NaN

\* Python truth value of a numeric cell: None and 0 are falsy, NaN is truthy
Truthy(v) == v # None /\ v # 0

\* Python a != b on numeric cells: NaN differs from everything, itself included
PyNe(a, b) == IF a = NaN \/ b = NaN THEN TRUE ELSE a # b

\* sqlite3 binds a float NaN as NULL
ToSql(v) == IF v = NaN THEN None ELSE v

FracToSql(f) == IF f = FracNaN THEN FracNone ELSE f

Range(s) == {s[i] : i \in 1..Len(s)}

\* ------------------------------------------------------------------ scraper
RECURSIVE LStrip(_)
LStrip(s) == IF s # <<>> /\ Head(s) = " " THEN LStrip(Tail(s)) ELSE s

RECURSIVE RStrip(_)
RStrip(s) ==
    IF s # <<>> /\ s[Len(s)] = " " THEN RStrip(SubSeq(s, 1, Len(s) - 1)) ELSE s

\* str.strip()
Strip(s) == RStrip(LStrip(s))

\* hashlib.md5(...).hexdigest(): collision-free on the titles of the model
Md5(s) == <<"md5">> \o s

calculer_hash_produit(titre) ==
    IF titre = NoTitre \/ titre = <<>> THEN NoTitre ELSE Md5(titre)

\* the first group of digits of an amount written in groups of three
RECURSIVE PremierGroupe(_)
PremierGroupe(m) == IF m < 1000 THEN m ELSE PremierGroupe(m \div 1000)

\* The price text of an element is the words it shows (currency markers
\* among them), the amount its digits write in full, None when it has no
\* digit, and the separator between its groups of three digits ("" when it
\* is written without).  Amounts are whole numbers.  The currency is
\* detected from the markers in the order XAF/CFA, $/USD, EUR; it is set
\* before the number is looked for and stays when no number is found.  A
\* number without marker has the currency UNKNOWN.  The number:
\*   XAF      commas and dots are removed, every run of digits and spaces
\*            is joined and the spaces removed: the full amount;
\*   USD      the first run of digits and dots: the first group when the
\*            groups are separated by commas or spaces;
\*   EUR      dots are removed, then the first run of digits and commas:
\*            the first group when the groups are separated by spaces;
\*   no mark  the first run of digits, commas and dots, commas removed: the
\*            first group when the groups are separated by spaces.
\* The texts whose digits the branch reads as a decimal number (USD and
\* unmarked with groups separated by dots, EUR with groups separated by
\* commas) are not among the texts of the model.
ParserPrix(texte) ==
    LET M == Range(texte.mots)
        Devise == IF "XAF" \in M \/ "CFA" \in M THEN "XAF"
                  ELSE IF "$" \in M \/ "USD" \in M THEN "USD"
                  ELSE IF "EUR" \in M THEN "EUR"
                  ELSE IF texte.montant # None THEN "UNKNOWN"
                  ELSE DeviseNone
        coupe == CASE Devise = "XAF" -> FALSE
                   [] Devise = "USD" -> texte.sep \in {",", " "}
                   [] Devise = "EUR" -> texte.sep = " "
                   [] OTHER -> texte.sep = " "
    IN  [Prix |-> IF texte.montant = None THEN None
                  ELSE IF coupe THEN PremierGroupe(texte.montant)
                  ELSE texte.montant,
         Devise |-> Devise]

\* A search-result element is what the CSS selectors of
\* extraire_info_produit find in it: texte_titre is the text of the first
\* title selector that matches (NoTitre when none matches), texte_prix the
\* text of the price selectors.
extraire_info_produit(el) ==
    [Titre |-> IF el.texte_titre = NoTitre THEN NoTitre ELSE Strip(el.texte_titre),
     Prix |-> ParserPrix(el.texte_prix).Prix,
     Devise |-> ParserPrix(el.texte_prix).Devise,
     Vote |-> el.Vote,
     Lien_Image |-> el.Lien_Image]

\* the loop without produits_vus.add(hash_produit)
RECURSIVE TraiterElements_mut(_, _, _)
TraiterElements_mut(els, prods, vus) ==
    IF els = <<>> THEN [produits |-> prods, produits_vus |-> vus]
    ELSE LET el == Head(els)
             info == extraire_info_produit(el)
             hash_produit == calculer_hash_produit(info.Titre)
         IN  IF el.stale \/ info.Titre = NoTitre \/ info.Titre = <<>>
                \/ hash_produit \in vus
             THEN TraiterElements_mut(Tail(els), prods, vus)
             ELSE TraiterElements_mut(Tail(els),
                      Append(prods, [Titre |-> info.Titre,
                                     Prix |-> info.Prix,
                                     Devise |-> info.Devise,
                                     Vote |-> info.Vote,
                                     Lien_Image |-> info.Lien_Image,
                                     Hash_Produit |-> hash_produit]),
                      vus)

\* the loop without the test "if info['Titre']"
RECURSIVE TraiterElements_sanstitre(_, _, _)
TraiterElements_sanstitre(els, prods, vus) ==
    IF els = <<>> THEN [produits |-> prods, produits_vus |-> vus]
    ELSE LET el == Head(els)
             info == extraire_info_produit(el)
             hash_produit == calculer_hash_produit(info.Titre)
         IN  IF el.stale \/ hash_produit \in vus
             THEN TraiterElements_sanstitre(Tail(els), prods, vus)
             ELSE TraiterElements_sanstitre(Tail(els),
                      Append(prods, [Titre |-> info.Titre,
                                     Prix |-> info.Prix,
                                     Devise |-> info.Devise,
                                     Vote |-> info.Vote,
                                     Lien_Image |-> info.Lien_Image,
                                     Hash_Produit |-> hash_produit]),
                      vus \cup {hash_produit})

\* One pass of the per-element loop of scraper_amazon over the elements of
\* a page: an element whose extraction raises is skipped, an element
\* without title is skipped, an element whose hash was seen is a doublon.
RECURSIVE TraiterElements(_, _, _)
TraiterElements(els, prods, vus) ==
    IF els = <<>> THEN [produits |-> prods, produits_vus |-> vus]
    ELSE LET el == Head(els)
             info == extraire_info_produit(el)
             hash_produit == calculer_hash_produit(info.Titre)
         IN  IF el.stale \/ info.Titre = NoTitre \/ info.Titre = <<>>
                \/ hash_produit \in vus
             THEN TraiterElements(Tail(els), prods, vus)
             ELSE TraiterElements(Tail(els),
                      Append(prods, [Titre |-> info.Titre,
                                     Prix |-> info.Prix,
                                     Devise |-> info.Devise,
                                     Vote |-> info.Vote,
                                     Lien_Image |-> info.Lien_Image,
                                     Hash_Produit |-> hash_produit]),
                      vus \cup {hash_produit})

\* ------------------------------------------------- search results (inputs)
\* the price text showing the amount p (None: no digit) in the currency d
\* (DeviseNone: the words "Price Unavailable", no marker)
TextePrix(p, d) ==
    [mots |-> CASE d = "XAF" -> <<"XAF">>
                [] d = "USD" -> <<"$">>
                [] d = "EUR" -> <<"EUR">>
                [] d = "UNKNOWN" -> <<>>
                [] d = DeviseNone -> <<"Price", "Unavailable">>,
     montant |-> p,
     sep |-> ""]

\* a price text whose groups of three digits are separated by sep
TexteSepare(p, d, sep) == [TextePrix(p, d) EXCEPT !.sep = sep]

ElSepare(t, p, d, sep) ==
    [texte_titre |-> t, texte_prix |-> TexteSepare(p, d, sep), Vote |-> 40,
     Lien_Image |-> "img1", stale |-> FALSE]

El(t, p, d, v, img) ==
    [texte_titre |-> t, texte_prix |-> TextePrix(p, d), Vote |-> v,
     Lien_Image |-> img, stale |-> FALSE]

TitreA == <<"a">>
TitreB == <<"b">>

\* price changes of one product next to a product of constant price
ElementsPrix ==
    {El(TitreA, p, "XAF", 40, "img1") : p \in {0, 900, 905, 1000}}
    \cup {El(TitreA, 880, "XAF", 40, "img2"),
          El(TitreA, None, DeviseNone, 40, "img1"),
          El(TitreB, 1000, "XAF", 45, "img1")}

\* missing prices and ratings
ElementsNotes ==
    {El(TitreA, None, DeviseNone, None, LienNone),
     El(TitreA, None, "USD", 40, LienNone),
     El(TitreA, 200, "USD", None, LienNone),
     El(TitreA, 200, "USD", 40, LienNone),
     El(TitreA, 200, "USD", 50, LienNone),
     El(TitreB, 100, "USD", 40, "img1")}

\* titles: absent, empty, padded, repeated, element that fails to extract
ElementsTitres ==
    {El(t, 1000, "XAF", 40, "img1") : t \in {NoTitre, <<>>, TitreA, TitreB}}
    \cup {El(<<" ", "a">>, 880, "XAF", 50, "img2"),
          [El(TitreB, 1000, "XAF", 40, "img1") EXCEPT !.stale = TRUE]}

\* the same with a third title and a title of blanks
ElementsDedup ==
    ElementsTitres
    \cup {El(t, 1000, "XAF", 40, "img1") : t \in {<<" ">>, <<"c">>}}

\* 5 distinct titles and 2 repeats on one page
PageE2E ==
    LET e(t) == El(<<t>>, 1000, "XAF", 40, "img1")
    IN  <<e("a"), e("b"), e("a"), e("c"), e("d"), e("b"), e("e")>>

\* a price drop next to a product of constant price, on a failing store
ElementsPannes ==
    {El(TitreA, 1000, "XAF", 40, "img1"),
     El(TitreA, 880, "XAF", 40, "img1"),
     El(TitreB, 1000, "XAF", 45, "img1")}

\* one product at three prices: drops of 12% and of 25% from 1000
ElementsSeuil ==
    {El(TitreA, p, "XAF", 40, "img1") : p \in {750, 880, 1000}}

\* a record without parseable price, records without title, a priced record
ElementsManquants ==
    {El(TitreA, None, DeviseNone, 40, "img1"),
     El(TitreA, 1000, "XAF", 40, "img1"),
     El(TitreB, 1000, "XAF", 45, "img1"),
     El(NoTitre, 1000, "XAF", 40, "img1"),
     El(<<>>, 1000, "XAF", 40, "img1"),
     El(<<" ">>, None, DeviseNone, 40, "img1")}

\* prices on both sides of every step of the buckets, in the currencies the
\* parser tells apart, and price texts without number
ElementsCategories ==
    {El(TitreA, p, "XAF", 40, "img1") :
        p \in {99999, 100000, 299999, 300000, 599999, 600000}}
    \cup {El(TitreB, p, "USD", 40, "img1") :
            p \in {149, 150, 499, 500, 999, 1000}}
    \cup {El(TitreA, 200, "EUR", 40, "img1"),
          El(TitreB, 200, "UNKNOWN", 40, "img1"),
          El(TitreA, None, DeviseNone, 40, "img1"),
          El(TitreB, None, "USD", 40, "img1")}

\* amounts written with the thousands separators of each currency
ElementsSeparateurs ==
    {ElSepare(TitreA, 1299, "USD", ","),
     ElSepare(TitreA, 245000, "XAF", " "),
     ElSepare(TitreA, 1299, "EUR", "."),
     ElSepare(TitreB, 425, "USD", ""),
     ElSepare(TitreB, 245000, "XAF", ","),
     ElSepare(TitreB, 1234567, "USD", ","),
     ElSepare(TitreB, 1299, "EUR", " "),
     ElSepare(TitreB, 1299, "UNKNOWN", ",")}

\* pages of new products and of duplicates
ElementsPagination ==
    {El(TitreA, 1000, "XAF", 40, "img1"), El(TitreB, 1000, "XAF", 45, "img1")}

Scenarios == {"prix", "notes", "titres", "e2e", "pannes"}

SeqsUpTo(S, n) == UNION {[1..k -> S] : k \in 1..n}

\* the non-empty result pages the site may serve
Pages(sc) ==
    CASE sc = "prix" -> SeqsUpTo(ElementsPrix, MaxPage)
      [] sc = "notes" -> SeqsUpTo(ElementsNotes, MaxPage)
      [] sc = "titres" -> SeqsUpTo(ElementsTitres, MaxPage)
      [] sc = "pannes" -> SeqsUpTo(ElementsPannes, MaxPage)
      [] sc = "dedup" -> SeqsUpTo(ElementsDedup, MaxPage)
      [] sc = "manquants" -> SeqsUpTo(ElementsManquants, MaxPage)
      [] sc = "seuil" -> SeqsUpTo(ElementsSeuil, MaxPage)
      [] sc = "categories" -> SeqsUpTo(ElementsCategories, MaxPage)
      [] sc = "pagination" -> SeqsUpTo(ElementsPagination, MaxPage)
      [] sc = "separateurs" -> SeqsUpTo(ElementsSeparateurs, MaxPage)
      [] sc = "e2e" -> {PageE2E}

\* ---------------------------------------------------------------- pipelines
\* dtype inference of pd.DataFrame on a numeric column: a column with at
\* least one number is float64 and its None cells become NaN, a column of
\* None only keeps None.
ColonneNum(col, v) ==
    IF v # None THEN v
    ELSE IF \E i \in 1..Len(col) : col[i] # None THEN NaN ELSE None

\* pd.DataFrame(produits)
DataFrame(prods) ==
    [i \in 1..Len(prods) |->
        [prods[i] EXCEPT
            !.Prix = ColonneNum([j \in 1..Len(prods) |-> prods[j].Prix], @),
            !.Vote = ColonneNum([j \in 1..Len(prods) |-> prods[j].Vote], @)]]

\* the steps of XAF taken with <= instead of <
categoriser_prix_mut(row) ==
    IF IsNa(row.Prix) THEN "Inconnu"
    ELSE IF row.Devise = "XAF"
         THEN IF row.Prix <= 100000 THEN "Economique"
              ELSE IF row.Prix <= 300000 THEN "Moyen"
              ELSE IF row.Prix <= 600000 THEN "Cher"
              ELSE "Premium"
    ELSE IF row.Devise = "USD"
         THEN IF row.Prix < 150 THEN "Economique"
              ELSE IF row.Prix < 500 THEN "Moyen"
              ELSE IF row.Prix < 1000 THEN "Cher"
              ELSE "Premium"
    ELSE "Inconnu"

\* categoriser_prix(row): 'Inconnu' for a missing price, the steps of the
\* currency for XAF and USD, 'Inconnu' for any other currency
categoriser_prix(row) ==
    IF IsNa(row.Prix) THEN "Inconnu"
    ELSE IF row.Devise = "XAF"
         THEN IF row.Prix < 100000 THEN "Economique"
              ELSE IF row.Prix < 300000 THEN "Moyen"
              ELSE IF row.Prix < 600000 THEN "Cher"
              ELSE "Premium"
    ELSE IF row.Devise = "USD"
         THEN IF row.Prix < 150 THEN "Economique"
              ELSE IF row.Prix < 500 THEN "Moyen"
              ELSE IF row.Prix < 1000 THEN "Cher"
              ELSE "Premium"
    ELSE "Inconnu"

categoriser_vote(vote) ==
    IF IsNa(vote) THEN "Non note"
    ELSE IF vote < 35 THEN "Faible"
    ELSE IF vote < 40 THEN "Moyen"
    ELSE IF vote < 45 THEN "Bon"
    ELSE "Excellent"

\* df['Prix'].max(): NaN cells are skipped
PrixMax(df) ==
    LET P == {df[i].Prix : i \in 1..Len(df)} \ {None, NaN}
    IN  CHOOSE m \in P : \A q \in P : q <= m

\* Vote / Prix: the price is not normalised by the maximum of the batch
RapportBrut_mut(row, prix_max) ==
    IF ~IsNa(row.Vote) /\ ~IsNa(row.Prix) /\ row.Prix > 0
    THEN Frac(row.Vote, 10 * row.Prix)
    ELSE FracNone

\* Vote / Prix_Norm with Prix_Norm = Prix / prix_max, or None
RapportBrut(row, prix_max) ==
    IF ~IsNa(row.Vote) /\ ~IsNa(row.Prix) /\ row.Prix > 0
    THEN Frac(row.Vote * prix_max, 10 * row.Prix)
    ELSE FracNone

\* the Rapport_Qualite_Prix column: None everywhere when no price is known
\* or the maximum is not positive; otherwise the result of df.apply, which
\* is float64 (None becomes NaN) unless every cell is None
Rapport_Qualite_Prix(df, i) ==
    IF \A j \in 1..Len(df) : IsNa(df[j].Prix) THEN FracNone
    ELSE IF ~(PrixMax(df) > 0) THEN FracNone
    ELSE LET r == RapportBrut(df[i], PrixMax(df))
         IN  IF r # FracNone THEN r
             ELSE IF \E j \in 1..Len(df) :
                        RapportBrut(df[j], PrixMax(df)) # FracNone
                  THEN FracNaN ELSE FracNone

\* appliquer_pipelines on a DataFrame with at least one row
appliquer_pipelines(df) ==
    [i \in 1..Len(df) |->
        [Titre |-> df[i].Titre,
         Prix |-> df[i].Prix,
         Devise |-> df[i].Devise,
         Vote |-> df[i].Vote,
         Lien_Image |-> df[i].Lien_Image,
         Hash_Produit |-> df[i].Hash_Produit,
         Categorie_Prix |-> categoriser_prix(df[i]),
         Qualite_Vote |-> categoriser_vote(df[i].Vote),
         Rapport_Qualite_Prix |-> Rapport_Qualite_Prix(df, i)]]

\* ------------------------------------------------------------------- store
\* str(row.get('Titre', ''))
StrTitre(t) == IF t = NoTitre THEN <<"N", "o", "n", "e">> ELSE t

\* the product hash computed by inserer_produits
HashBase(row) == Md5(StrTitre(row.Titre))

\* INSERT INTO produits: the row gets the next id and today's timestamp
LigneProduit(row, id, jour) ==
    [id |-> id,
     titre |-> row.Titre,
     prix |-> ToSql(row.Prix),
     vote |-> ToSql(row.Vote),
     lien_image |-> row.Lien_Image,
     categorie_prix |-> row.Categorie_Prix,
     qualite_vote |-> row.Qualite_Vote,
     rapport_qualite_prix |-> FracToSql(row.Rapport_Qualite_Prix),
     date_scraping |-> jour,
     hash_produit |-> HashBase(row)]

\* the row of today deleted instead of updated
MajProduit_suppr(table, id, row) ==
    SelectSeq(table, LAMBDA r : r.id # id)

\* an UPDATE that also overwrites lien_image
MajProduit_mut(table, id, row) ==
    [i \in 1..Len(table) |->
        IF table[i].id = id
        THEN [table[i] EXCEPT
                !.prix = ToSql(row.Prix),
                !.vote = ToSql(row.Vote),
                !.lien_image = row.Lien_Image,
                !.categorie_prix = row.Categorie_Prix,
                !.qualite_vote = row.Qualite_Vote,
                !.rapport_qualite_prix = FracToSql(row.Rapport_Qualite_Prix)]
        ELSE table[i]]

\* UPDATE produits SET prix, vote, categorie_prix, qualite_vote,
\* rapport_qualite_prix WHERE id = ?
MajProduit(table, id, row) ==
    [i \in 1..Len(table) |->
        IF table[i].id = id
        THEN [table[i] EXCEPT
                !.prix = ToSql(row.Prix),
                !.vote = ToSql(row.Vote),
                !.categorie_prix = row.Categorie_Prix,
                !.qualite_vote = row.Qualite_Vote,
                !.rapport_qualite_prix = FracToSql(row.Rapport_Qualite_Prix)]
        ELSE table[i]]

\* INSERT INTO prix_historique
LigneHistorique(row, jour) ==
    [hash_produit |-> HashBase(row),
     prix |-> ToSql(row.Prix),
     vote |-> ToSql(row.Vote),
     date_observation |-> jour]

\* the alert raised from a drop of 10% on
BaisseSignificative_mut(ancien_prix, nouveau_prix) ==
    /\ Truthy(ancien_prix) /\ Truthy(nouveau_prix)
    /\ ancien_prix # NaN /\ nouveau_prix # NaN
    /\ (nouveau_prix - ancien_prix) * 100 <= (0 - 10) * ancien_prix

\* the test of _enregistrer_changement_prix: both prices truthy and
\* ((nouveau - ancien) / ancien) * 100 < -10.  A NaN price makes the
\* variation NaN and the comparison false.  On the prices of the model the
\* float comparison agrees with the exact one.
BaisseSignificative(ancien_prix, nouveau_prix) ==
    /\ Truthy(ancien_prix) /\ Truthy(nouveau_prix)
    /\ ancien_prix # NaN /\ nouveau_prix # NaN
    /\ (nouveau_prix - ancien_prix) * 100 < (0 - 10) * ancien_prix

\* abs(variation_pct) in tenths of a percent, as printed by :.1f
VariationDixiemes(ancien_prix, nouveau_prix) ==
    ((ancien_prix - nouveau_prix) * 2000 + ancien_prix) \div (2 * ancien_prix)

LigneAlerte(hash_produit, ancien_prix, nouveau_prix, jour) ==
    [type_alerte |-> "BAISSE_PRIX",
     message |-> <<"Prix baisse de", VariationDixiemes(ancien_prix, nouveau_prix)>>,
     hash_produit |-> hash_produit,
     ancien_prix |-> ancien_prix,
     nouveau_prix |-> nouveau_prix,
     date_alerte |-> jour]

\* log_scraping ignoring its statut argument (the default 'SUCCESS')
LigneLog_mut(nb_produits, nb_nouveaux, nb_mises_a_jour, statut, erreur, jour) ==
    [date_scraping |-> jour,
     nb_produits_scrapes |-> nb_produits,
     nb_nouveaux |-> nb_nouveaux,
     nb_mises_a_jour |-> nb_mises_a_jour,
     statut |-> "SUCCESS",
     message_erreur |-> erreur]

\* INSERT INTO scraping_logs
LigneLog(nb_produits, nb_nouveaux, nb_mises_a_jour, statut, erreur, jour) ==
    [date_scraping |-> jour,
     nb_produits_scrapes |-> nb_produits,
     nb_nouveaux |-> nb_nouveaux,
     nb_mises_a_jour |-> nb_mises_a_jour,
     statut |-> statut,
     message_erreur |-> erreur]

\* ------------------------------------------------------------------- state
VARIABLES
    scenario,                 \* which inputs and faults the environment offers
    today,                    \* the calendar day of DATE('now')
    runs,                     \* number of run_scraping_job invocations
    db_instance,              \* database._db_instance
    produits,                 \* table produits, as the connection sees it
    prix_historique,          \* table prix_historique
    alertes,                  \* table alertes
    scraping_logs,            \* table scraping_logs
    pc,                       \* position of run_scraping_job
    nb_min_produits,          \* argument of scraper_amazon
    max_pages,                \* argument of scraper_amazon
    page_actuelle,            \* scraper_amazon
    pages_vides_consecutives, \* scraper_amazon
    produits_scrapes,         \* the list produits of scraper_amazon
    produits_vus,             \* the set produits_vus of scraper_amazon
    page_recue,               \* the elements of the last page, when observed
    avant_page,               \* list and set before the last page, when observed
    charges,                  \* the page loads of the last scraper_amazon
                              \* call, when counted
    df_clean,                 \* the DataFrame handed to inserer_produits
    idx,                      \* position of the loop of inserer_produits
    nouveaux,                 \* counter of inserer_produits
    mises_a_jour,             \* counter of inserer_produits
    iter,                     \* the locals of the last loop iteration
    avant,                    \* the tables when the job started
    log_echecs,               \* get_db and log_scraping calls of the job that
                              \* raised where it writes its run log
    durable,                  \* the tables as of the last commit on the
                              \* shared connection; the tables themselves are
                              \* what the connection reads, pending writes
                              \* included
    erreur,                   \* the exception caught by run_scraping_job
    result,                   \* the value returned by run_scraping_job
    envois,                   \* the envoyer_email calls of the last alert job
    alerte_result,            \* the value returned by run_alerte_job
    alerte_erreur,            \* the exception of the last alert job, as it
                              \* was logged
    alerte_runs,              \* number of run_alerte_job invocations since
                              \* the last scraping job started
    fils                      \* the locals of the threads that run
                              \* concurrently, when threads are observed

storeVars == <<produits, prix_historique, alertes, scraping_logs>>
scraperVars == <<nb_min_produits, max_pages, page_actuelle,
                 pages_vides_consecutives, produits_scrapes, produits_vus,
                 page_recue, avant_page, charges>>
insertVars == <<df_clean, idx, nouveaux, mises_a_jour, iter, avant>>
logVars == <<log_echecs, durable>>
alerteVars == <<envois, alerte_result, alerte_erreur, alerte_runs>>
concVars == <<fils>>
vars == <<scenario, today, runs, db_instance, storeVars, pc, scraperVars,
          insertVars, logVars, erreur, result, alerteVars, concVars>>

\* no thread is observed: the jobs run one after the other
AucunFil == <<>>

Tables == [produits |-> produits, prix_historique |-> prix_historique,
           alertes |-> alertes, scraping_logs |-> scraping_logs]

TablesVides == [produits |-> <<>>, prix_historique |-> <<>>,
                alertes |-> <<>>, scraping_logs |-> <<>>]

NoResult == [status |-> "NONE", nb_produits |-> None, nouveaux |-> None,
             mises_a_jour |-> None, error |-> "None"]

NoIter == [fait |-> FALSE]

AucunePage == [produits |-> <<>>, produits_vus |-> {}]

\* no page was loaded: n counts the driver.get calls of the loop, page is
\* the greatest page number requested, issue what the last load gave,
\* max_pages the argument of the call
AucuneCharge == [n |-> 0, page |-> 0, issue |-> "aucune", max_pages |-> 0]

\* the environment of a scenario: the page loads are counted
ChargesComptees == scenario = "pagination"

\* driver.get(generer_url_amazon(mots_cles, page_actuelle))
Charger(issue) ==
    charges' = IF ChargesComptees
               THEN [charges EXCEPT
                        !.n = @ + 1,
                        !.issue = issue,
                        !.page = IF page_actuelle > @ THEN page_actuelle
                                 ELSE @]
               ELSE charges

\* the values of nb_produits the callers pass (bounded)
NbProduitsParams == {1, 5}

\* the environment of a scenario: the driver and the site may fail
SiteInstable == scenario \in {"titres", "pannes", "dedup", "pagination"}

\* the environment of a scenario: statements of the store may fail
StoreFaillible == scenario = "pannes"

\* the state after the modules are loaded, before any job
InitJob ==
    /\ today = 1
    /\ runs = 0
    /\ db_instance = "None"
    /\ produits = <<>>
    /\ prix_historique = <<>>
    /\ alertes = <<>>
    /\ scraping_logs = <<>>
    /\ pc = "idle"
    /\ nb_min_produits = 0
    /\ max_pages = 0
    /\ page_actuelle = 0
    /\ pages_vides_consecutives = 0
    /\ produits_scrapes = <<>>
    /\ produits_vus = {}
    /\ page_recue = <<>>
    /\ avant_page = AucunePage
    /\ charges = AucuneCharge
    /\ df_clean = <<>>
    /\ idx = 0
    /\ nouveaux = 0
    /\ mises_a_jour = 0
    /\ iter = NoIter
    /\ avant = TablesVides
    /\ log_echecs = 0
    /\ durable = Tables
    /\ erreur = "None"
    /\ result = NoResult
    /\ envois = <<>>
    /\ alerte_result = "NONE"
    /\ alerte_erreur = "None"
    /\ alerte_runs = 0

\* the state after the modules are loaded, no thread being observed
InitEtat == InitJob /\ fils = AucunFil

Init == scenario \in Scenarios /\ InitEtat

\* The calendar day changes.  It is read by DATE('now') and the default
\* timestamps of inserer_produits and log_scraping only, so the change is
\* taken where one of these statements comes next: a change at any other
\* moment commutes with the steps up to there.  The runs on the failing
\* store are runs of one day.
NextDay ==
    /\ today < MaxJours
    /\ ~StoreFaillible
    /\ pc \in {"insert", "log", "except"}
    /\ today' = today + 1
    /\ UNCHANGED <<scenario, runs, db_instance, storeVars, pc, scraperVars,
                   insertVars, erreur, result,
                   alerteVars, logVars, concVars>>

\* ------------------------------------------------ run_scraping_job: scraper
\* run_scraping_job is called and scraper_amazon sets up its driver
Appeler(NB, MP) ==
    /\ pc \in {"idle", "done"}
    /\ runs < MaxRuns
    /\ runs' = runs + 1
    /\ \E nb \in NB, mp \in MP :
        /\ nb_min_produits' = nb
        /\ max_pages' = mp
        /\ charges' = [AucuneCharge EXCEPT
                         !.max_pages = IF ChargesComptees THEN mp ELSE 0]
    /\ page_actuelle' = 1
    /\ pages_vides_consecutives' = 0
    /\ produits_scrapes' = <<>>
    /\ produits_vus' = {}
    /\ page_recue' = <<>>
    /\ avant_page' = AucunePage
    /\ df_clean' = <<>>
    /\ idx' = 0
    /\ nouveaux' = 0
    /\ mises_a_jour' = 0
    /\ iter' = NoIter
    /\ avant' = Tables
    /\ log_echecs' = 0
    /\ durable' = durable
    /\ erreur' = "None"
    /\ result' = NoResult
    /\ pc' = "scraping"
    /\ envois' = <<>>
    /\ alerte_result' = "NONE"
    /\ alerte_erreur' = "None"
    /\ alerte_runs' = 0
    /\ UNCHANGED <<scenario, today, db_instance, storeVars, concVars>>

\* run_scraping_job called by the scheduler or the page
StartJob == Appeler(NbProduitsParams, 1..MaxPagesParam)

\* the try block without the pipelines: their exception is not caught
Handler_mut(exception) == IF exception = "KeyError" THEN "raised" ELSE "except"

\* The try block of run_scraping_job: "except Exception" catches every
\* exception raised in it; an exception that is not caught leaves
\* run_scraping_job.
Handler(exception) == "except"

\* the loop goes on to a page after the last one
BoucleContinue_mut ==
    Len(produits_scrapes) < nb_min_produits /\ page_actuelle <= max_pages + 1

\* the condition of the while loop of scraper_amazon
BoucleContinue ==
    Len(produits_scrapes) < nb_min_produits /\ page_actuelle <= max_pages

\* scraper_amazon returns (or raises): its arguments and counters are gone
RetourScraper ==
    /\ nb_min_produits' = 0
    /\ max_pages' = 0
    /\ page_actuelle' = 0
    /\ pages_vides_consecutives' = 0

\* driver.get (or any other driver call) raises: scraper_amazon re-raises
PageErreur ==
    /\ pc = "scraping" /\ BoucleContinue
    /\ SiteInstable
    /\ Charger("erreur")
    /\ pc' = Handler("WebDriverException")
    /\ erreur' = "WebDriverException"
    /\ RetourScraper
    /\ UNCHANGED <<scenario, today, runs, db_instance, storeVars,
                   produits_scrapes, produits_vus, page_recue, avant_page,
                   insertVars, result,
                   alerteVars, logVars, concVars>>

\* a timeout that goes on to the next page
PageTimeout_mut ==
    /\ pc = "scraping" /\ BoucleContinue
    /\ SiteInstable
    /\ Charger("timeout")
    /\ IF pages_vides_consecutives + 1 >= 2
       THEN pc' = "pipelines" /\ RetourScraper
       ELSE /\ pc' = pc
            /\ pages_vides_consecutives' = pages_vides_consecutives + 1
            /\ page_actuelle' = page_actuelle + 1
            /\ UNCHANGED <<nb_min_produits, max_pages>>
    /\ UNCHANGED <<scenario, today, runs, db_instance, storeVars,
                   produits_scrapes, produits_vus, page_recue, avant_page,
                   insertVars, erreur,
                   result,
                   alerteVars, logVars, concVars>>

\* WebDriverWait times out: the page number is kept
PageTimeout ==
    /\ pc = "scraping" /\ BoucleContinue
    /\ SiteInstable
    /\ Charger("timeout")
    /\ IF pages_vides_consecutives + 1 >= 2
       THEN pc' = "pipelines" /\ RetourScraper
       ELSE /\ pc' = pc
            /\ pages_vides_consecutives' = pages_vides_consecutives + 1
            /\ UNCHANGED <<nb_min_produits, max_pages, page_actuelle>>
    /\ UNCHANGED <<scenario, today, runs, db_instance, storeVars,
                   produits_scrapes, produits_vus, page_recue, avant_page,
                   insertVars, erreur,
                   result,
                   alerteVars, logVars, concVars>>

\* detecter_page_vide returns True
PageVide ==
    /\ pc = "scraping" /\ BoucleContinue
    /\ SiteInstable
    /\ Charger("vide")
    /\ IF pages_vides_consecutives + 1 >= 2
       THEN pc' = "pipelines" /\ RetourScraper
       ELSE /\ pc' = pc
            /\ pages_vides_consecutives' = pages_vides_consecutives + 1
            /\ page_actuelle' = page_actuelle + 1
            /\ UNCHANGED <<nb_min_produits, max_pages>>
    /\ UNCHANGED <<scenario, today, runs, db_instance, storeVars,
                   produits_scrapes, produits_vus, page_recue, avant_page,
                   insertVars, erreur,
                   result,
                   alerteVars, logVars, concVars>>

\* A page with results: extraction and deduplication of its elements.
\* observe records the page and the list and set before it, for the
\* properties of the deduplication; the program keeps no such record.
ChargerResultats(observe) ==
    /\ pc = "scraping" /\ BoucleContinue
    /\ Charger("resultats")
    /\ \E page \in Pages(scenario) :
        LET r == TraiterElements(page, produits_scrapes, produits_vus)
        IN  /\ produits_scrapes' = r.produits
            /\ produits_vus' = r.produits_vus
            /\ page_recue' = IF observe THEN page ELSE page_recue
            /\ avant_page' =
                IF observe
                THEN [produits |-> produits_scrapes,
                      produits_vus |-> produits_vus]
                ELSE avant_page
    /\ pages_vides_consecutives' = 0
    /\ page_actuelle' = page_actuelle + 1
    /\ UNCHANGED <<scenario, today, runs, db_instance, storeVars, pc,
                   nb_min_produits, max_pages, insertVars, erreur, result,
                   alerteVars, logVars, concVars>>

PageResultats == ChargerResultats(FALSE)

\* the while condition is false: the driver is closed, the list is returned
FinBoucle ==
    /\ pc = "scraping" /\ ~BoucleContinue
    /\ pc' = "pipelines"
    /\ RetourScraper
    /\ UNCHANGED <<scenario, today, runs, db_instance, storeVars, charges,
                   produits_scrapes, produits_vus, page_recue, avant_page,
                   insertVars, erreur,
                   result,
                   alerteVars, logVars, concVars>>

\* pd.DataFrame(produits) and appliquer_pipelines.  A DataFrame built from
\* an empty list has no column and df_clean['Vote'] raises KeyError.
Pipelines ==
    /\ pc = "pipelines"
    /\ IF produits_scrapes = <<>>
       THEN /\ pc' = Handler("KeyError")
            /\ erreur' = "KeyError"
            /\ UNCHANGED df_clean
       ELSE /\ pc' = "get_db"
            /\ df_clean' = appliquer_pipelines(DataFrame(produits_scrapes))
            /\ UNCHANGED erreur
    /\ UNCHANGED <<scenario, today, runs, db_instance, storeVars, scraperVars,
                   idx, nouveaux, mises_a_jour, iter, avant, result,
                   alerteVars, logVars, concVars>>

\* ------------------------------------------------------------------ get_db
\* get_db() in the try block returns the singleton, constructing it on the
\* first call; inserer_produits is entered
GetDb ==
    /\ pc = "get_db"
    /\ db_instance' = "db"
    /\ pc' = "insert"
    /\ idx' = 1
    /\ nouveaux' = 0
    /\ mises_a_jour' = 0
    /\ iter' = NoIter
    /\ avant' = Tables
    /\ UNCHANGED <<scenario, today, runs, storeVars, scraperVars, df_clean,
                   erreur, result,
                   alerteVars, logVars, concVars>>

\* the first get_db() fails to connect: DatabaseManager() raises
GetDbEchec ==
    /\ pc = "get_db"
    /\ StoreFaillible
    /\ db_instance = "None"
    /\ pc' = Handler("connexion")
    /\ erreur' = "connexion"
    /\ UNCHANGED <<scenario, today, runs, db_instance, storeVars, scraperVars,
                   insertVars, result,
                   alerteVars, logVars, concVars>>

\* -------------------------------------------------------- inserer_produits
\* the SELECT compares the timestamp itself with today's date: no row is
\* ever found
Existants_mut(row) ==
    {i \in 1..Len(produits) :
        /\ produits[i].hash_produit = HashBase(row)
        /\ produits[i].date_scraping = today
        /\ produits[i].date_scraping # today}

\* the SELECT without the condition on the day
Existants_tousjours(row) ==
    {i \in 1..Len(produits) : produits[i].hash_produit = HashBase(row)}

\* the rows of today with the hash of this record (the SELECT)
Existants(row) ==
    {i \in 1..Len(produits) :
        /\ produits[i].hash_produit = HashBase(row)
        /\ produits[i].date_scraping = today}

\* old_prix != new_prix or old_vote != new_vote
Change(existing, row) ==
    PyNe(existing.prix, row.Prix) \/ PyNe(existing.vote, row.Vote)

Statements == {"select", "produit", "alerte", "historique"}

\* the INSERT INTO prix_historique inside the branches that write a row
InsereHistorique_mut(existe, change) == ~existe \/ change

\* The INSERT INTO prix_historique stands after the if/else on existing: it
\* is executed for every record, found or not, changed or not.
InsereHistorique(existe, change) == TRUE

\* One iteration of the loop of inserer_produits on df_clean[idx].  echec is
\* the statement that raises, "aucun" when none does; the statements before
\* it have taken effect on the connection.
Iteration(echec) ==
    LET row == df_clean[idx]
        E == Existants(row)
    IN  \E e \in (IF E = {} THEN {0} ELSE E) :
        LET existe == e # 0
            change == existe /\ Change(produits[e], row)
            baisse == change /\ BaisseSignificative(produits[e].prix, row.Prix)
            fait(stmt) ==
                \/ echec = "aucun"
                \/ stmt = "produit" /\ echec \in {"alerte", "historique"}
                \/ stmt = "alerte" /\ echec = "historique"
        IN  /\ \/ echec \in {"aucun", "select", "historique"}
               \/ echec = "produit" /\ (~existe \/ change)
               \/ echec = "alerte" /\ baisse
            /\ produits' =
                IF ~fait("produit") THEN produits
                ELSE IF ~existe
                     THEN Append(produits,
                                 LigneProduit(row, Len(produits) + 1, today))
                ELSE IF change THEN MajProduit(produits, produits[e].id, row)
                ELSE produits
            /\ alertes' =
                IF baisse /\ fait("alerte")
                THEN Append(alertes, LigneAlerte(HashBase(row), produits[e].prix,
                                                 row.Prix, today))
                ELSE alertes
            /\ prix_historique' =
                IF fait("historique") /\ InsereHistorique(existe, change)
                THEN Append(prix_historique, LigneHistorique(row, today))
                ELSE prix_historique
            /\ nouveaux' =
                IF ~existe /\ fait("produit") THEN nouveaux + 1 ELSE nouveaux
            /\ mises_a_jour' =
                IF change /\ fait("alerte") THEN mises_a_jour + 1
                ELSE mises_a_jour
            /\ iter' = [fait |-> TRUE, row |-> row, jour |-> today,
                        existe |-> existe,
                        id |-> IF existe THEN produits[e].id ELSE 0,
                        old_prix |-> IF existe THEN produits[e].prix ELSE None,
                        old_vote |-> IF existe THEN produits[e].vote ELSE None,
                        echec |-> echec, avant |-> Tables,
                        nouveaux |-> nouveaux, mises_a_jour |-> mises_a_jour]

\* a record is processed without store failure
InsererProduit ==
    /\ pc = "insert" /\ idx <= Len(df_clean)
    /\ Iteration("aucun")
    /\ idx' = idx + 1
    /\ UNCHANGED <<scenario, today, runs, db_instance, scraping_logs, pc,
                   scraperVars, df_clean, avant, erreur, result,
                   alerteVars, logVars, concVars>>

\* a statement of the iteration raises: the exception leaves inserer_produits
InsererProduitEchec ==
    /\ pc = "insert" /\ idx <= Len(df_clean)
    /\ StoreFaillible
    /\ \E echec \in Statements : Iteration(echec)
    /\ erreur' = "StoreError"
    /\ pc' = Handler("StoreError")
    /\ UNCHANGED <<scenario, today, runs, db_instance, scraping_logs,
                   scraperVars, df_clean, idx, avant, result,
                   alerteVars, logVars, concVars>>

\* a commit that makes durable the run-log table only
connection_commit_mut(tables) ==
    [durable EXCEPT !.scraping_logs = tables.scraping_logs]

\* self.connection.commit(): no statement is rolled back anywhere, and the
\* DatabaseManager has one connection, so every write pending on it, of the
\* caller or not, becomes durable
connection_commit(tables) == tables

\* connection.commit() at the end of inserer_produits; the counts are
\* returned to run_scraping_job
Commit ==
    /\ pc = "insert" /\ idx > Len(df_clean)
    /\ pc' = "log"
    /\ durable' = connection_commit(Tables)
    /\ UNCHANGED <<scenario, today, runs, db_instance, storeVars, scraperVars,
                   insertVars, erreur, result,
                   alerteVars, log_echecs, concVars>>

\* connection.commit() raises
CommitEchec ==
    /\ pc = "insert" /\ idx > Len(df_clean)
    /\ StoreFaillible
    /\ pc' = Handler("StoreError")
    /\ erreur' = "StoreError"
    /\ UNCHANGED <<scenario, today, runs, db_instance, storeVars, scraperVars,
                   insertVars, result,
                   alerteVars, logVars, concVars>>

\* --------------------------------------------- run_scraping_job: log, return
\* db.log_scraping(..., statut='SUCCESS') and the SUCCESS return
LogSucces ==
    /\ pc = "log"
    /\ scraping_logs' =
        Append(scraping_logs,
               LigneLog(Len(df_clean), nouveaux, mises_a_jour, "SUCCESS",
                        "None", today))
    /\ result' = [status |-> "SUCCESS", nb_produits |-> Len(df_clean),
                  nouveaux |-> nouveaux, mises_a_jour |-> mises_a_jour,
                  error |-> "None"]
    /\ pc' = "done"
    /\ durable' = connection_commit([Tables EXCEPT
                                        !.scraping_logs = scraping_logs'])
    /\ UNCHANGED <<scenario, today, runs, db_instance, produits,
                   prix_historique, alertes, scraperVars, insertVars, erreur,
                   alerteVars, log_echecs, concVars>>

\* log_scraping raises in the try block, at its INSERT or at its commit
LogSuccesEchec ==
    /\ pc = "log"
    /\ StoreFaillible
    /\ \E point \in {"insert", "commit"} :
        scraping_logs' =
            IF point = "commit"
            THEN Append(scraping_logs,
                        LigneLog(Len(df_clean), nouveaux, mises_a_jour,
                                 "SUCCESS", "None", today))
            ELSE scraping_logs
    /\ erreur' = "StoreError"
    /\ pc' = Handler("StoreError")
    /\ log_echecs' = log_echecs + 1
    /\ durable' = durable
    /\ UNCHANGED <<scenario, today, runs, db_instance, produits,
                   prix_historique, alertes, scraperVars, insertVars, result,
                   alerteVars, concVars>>

\* the ERROR return without the message of the exception
ResultErreur_mut == [status |-> "ERROR", nb_produits |-> None,
                     nouveaux |-> None, mises_a_jour |-> None,
                     error |-> "None"]

\* the dict returned by the except block: status ERROR and str(e)
ResultErreur == [status |-> "ERROR", nb_produits |-> None, nouveaux |-> None,
                 mises_a_jour |-> None, error |-> erreur]

\* the except block: log_scraping(0, 0, 0, statut='ERROR') and the ERROR
\* return
LogErreur ==
    /\ pc = "except"
    /\ db_instance' = "db"
    /\ scraping_logs' =
        Append(scraping_logs, LigneLog(0, 0, 0, "ERROR", erreur, today))
    /\ result' = ResultErreur
    /\ pc' = "done"
    /\ log_echecs' = log_echecs
    /\ durable' = connection_commit([Tables EXCEPT
                                        !.scraping_logs = scraping_logs'])
    /\ UNCHANGED <<scenario, today, runs, produits, prix_historique, alertes,
                   scraperVars, insertVars, erreur,
                   alerteVars, concVars>>

\* the except block when get_db or log_scraping raises in it: the inner
\* try swallows the exception
LogErreurEchec ==
    /\ pc = "except"
    /\ StoreFaillible
    /\ \E point \in {"get_db", "insert", "commit"} :
        /\ point = "get_db" => db_instance = "None"
        /\ db_instance' = IF point = "get_db" THEN db_instance ELSE "db"
        /\ scraping_logs' =
            IF point = "commit"
            THEN Append(scraping_logs,
                        LigneLog(0, 0, 0, "ERROR", erreur, today))
            ELSE scraping_logs
    /\ result' = ResultErreur
    /\ pc' = "done"
    /\ log_echecs' = log_echecs + 1
    /\ durable' = durable
    /\ UNCHANGED <<scenario, today, runs, produits, prix_historique, alertes,
                   scraperVars, insertVars, erreur,
                   alerteVars, concVars>>

\* ------------------------------------------------------------ run_alerte_job
\* AlerteManager.enabled: SMTP_USER and SMTP_PASSWORD are set
SmtpConfigure == scenario \in {"notes", "digest"}

\* limit=50 of the call of get_alertes_recentes by verifier_et_alerter
LIMITE_ALERTES == 50

\* LIMIT 5 of the examples of _verifier_nouveaux_produits
LIMITE_NOUVEAUX == 5

\* LIMIT 10 of the query of _verifier_bonnes_affaires
LIMITE_BONNES_AFFAIRES == 10

\* SEUIL_RAPPORT_QUALITE_PRIX, default of the variable SEUIL_RAPPORT_QP
SEUIL_RAPPORT_QUALITE_PRIX == 8

\* ORDER BY date_alerte ASC: the oldest alerts
get_alertes_recentes_asc(limit) ==
    LET n == Len(alertes)
        k == IF n < limit THEN n ELSE limit
    IN  [i \in 1..k |-> alertes[i]]

\* get_alertes_recentes(limit): ORDER BY date_alerte DESC LIMIT limit.  The
\* timestamps do not decrease from one inserted row to the next, so the
\* rows come in reverse order of insertion; rows of equal timestamp may
\* come in any order, which what is observed of them (their number, kind
\* and timestamp) does not depend on.
get_alertes_recentes(limit) ==
    LET n == Len(alertes)
        k == IF n < limit THEN n ELSE limit
    IN  [i \in 1..k |-> alertes[n + 1 - i]]

\* SELECT COUNT(*) FROM produits WHERE DATE(date_scraping) = DATE('now')
NbNouveaux ==
    Cardinality({i \in 1..Len(produits) : produits[i].date_scraping = today})

\* rapport_qualite_prix >= the threshold
AuDessusSeuil_mut(f) == f[2] > 0 /\ f[1] >= SEUIL_RAPPORT_QUALITE_PRIX * f[2]

\* rapport_qualite_prix > SEUIL_RAPPORT_QUALITE_PRIX (8.0); NULL never is
AuDessusSeuil(f) == f[2] > 0 /\ f[1] > SEUIL_RAPPORT_QUALITE_PRIX * f[2]

\* the rows of today above the threshold
BonnesAffaires ==
    {i \in 1..Len(produits) :
        /\ AuDessusSeuil(produits[i].rapport_qualite_prix)
        /\ produits[i].date_scraping = today}

\* the rows selected by _verifier_bonnes_affaires, at most 10
NbBonnesAffaires ==
    LET n == Cardinality(BonnesAffaires)
    IN  IF n < LIMITE_BONNES_AFFAIRES THEN n ELSE LIMITE_BONNES_AFFAIRES

\* ratio f sorts before ratio g under ORDER BY ... DESC NULLS LAST
RapportPlusGrand(f, g) ==
    /\ f[2] > 0
    /\ g[2] > 0 => f[1] * g[2] > g[1] * f[2]

\* ORDER BY rapport_qualite_prix DESC NULLS LAST LIMIT limite on the rows I
\* of produits: the ratios of the selected rows, in order.  Rows of equal
\* ratio may come in any order, which their ratios do not depend on.
RapportsTries(I, limite) ==
    LET rang(i) == 1 + Cardinality({j \in I :
                        \/ RapportPlusGrand(produits[j].rapport_qualite_prix,
                                            produits[i].rapport_qualite_prix)
                        \/ /\ ~RapportPlusGrand(produits[i].rapport_qualite_prix,
                                                produits[j].rapport_qualite_prix)
                           /\ j < i})
        k == IF Cardinality(I) < limite THEN Cardinality(I) ELSE limite
    IN  [r \in 1..k |->
            produits[CHOOSE i \in I : rang(i) = r].rapport_qualite_prix]

\* the outcome of the SMTP dialogue of a dispatch
Transport(digest, smtp_echecs) ==
    IF ~SmtpConfigure THEN "desactive"
    ELSE IF digest \in smtp_echecs THEN "echec" ELSE "ok"

\* envoyer_email returning True in simulation mode
envoyer_email_mut(digest, n, lignes, smtp_echecs) ==
    [digest |-> digest, n |-> n, lignes |-> lignes,
     transport |-> Transport(digest, smtp_echecs),
     envoye |-> Transport(digest, smtp_echecs) # "echec"]

\* envoyer_email(sujet, corps_html): n is the number the subject gives,
\* lignes what the body lists; the value returned is False when the alerts
\* are disabled or the SMTP dialogue raises, True when the message was sent
envoyer_email(digest, n, lignes, smtp_echecs) ==
    [digest |-> digest, n |-> n, lignes |-> lignes,
     transport |-> Transport(digest, smtp_echecs),
     envoye |-> Transport(digest, smtp_echecs) = "ok"]

\* the failure of the SMTP dialogue leaves envoyer_email
EnvoiLeve_mut(transport) == transport = "echec"

\* envoyer_email catches Exception around the whole dialogue: nothing
\* leaves it
EnvoiLeve(transport) == FALSE

Digests == <<"BAISSE_PRIX", "NOUVEAUX", "BONNES_AFFAIRES">>

\* the query of a digest, and whether its data calls for a notification
Requete == [BAISSE_PRIX |-> "alertes", NOUVEAUX |-> "nouveaux",
            BONNES_AFFAIRES |-> "deals"]

\* df_baisses: the fetched alerts of type BAISSE_PRIX
Baisses ==
    SelectSeq(get_alertes_recentes(LIMITE_ALERTES),
              LAMBDA a : a.type_alerte = "BAISSE_PRIX")

NbDigest(digest) ==
    CASE digest = "BAISSE_PRIX" -> Len(Baisses)
      [] digest = "NOUVEAUX" -> NbNouveaux
      [] digest = "BONNES_AFFAIRES" -> NbBonnesAffaires

\* what the body of a digest lists: the timestamps of the price drops, the
\* ratios of the five examples of new products, the ratios of the deals
LignesDigest(digest) ==
    CASE digest = "BAISSE_PRIX" ->
            [i \in 1..Len(Baisses) |-> Baisses[i].date_alerte]
      [] digest = "NOUVEAUX" ->
            RapportsTries({i \in 1..Len(produits) :
                            produits[i].date_scraping = today},
                          LIMITE_NOUVEAUX)
      [] digest = "BONNES_AFFAIRES" ->
            RapportsTries(BonnesAffaires, LIMITE_BONNES_AFFAIRES)

\* the evaluation stops at the first digest without data
RECURSIVE Evaluer_mut(_, _, _)
Evaluer_mut(k, panne, smtp_echecs) ==
    IF k > Len(Digests) \/ panne = Requete[Digests[k]] THEN <<>>
    ELSE IF NbDigest(Digests[k]) > 0
         THEN <<envoyer_email(Digests[k], NbDigest(Digests[k]),
                              LignesDigest(Digests[k]), smtp_echecs)>>
              \o Evaluer_mut(k + 1, panne, smtp_echecs)
         ELSE <<>>

\* verifier_et_alerter from digest k on: a query that raises ends the
\* evaluation (the exception is caught and logged by verifier_et_alerter),
\* and so would an exception leaving envoyer_email
RECURSIVE Evaluer(_, _, _)
Evaluer(k, panne, smtp_echecs) ==
    IF k > Len(Digests) \/ panne = Requete[Digests[k]] THEN <<>>
    ELSE IF NbDigest(Digests[k]) > 0
         THEN LET e == envoyer_email(Digests[k], NbDigest(Digests[k]),
                                     LignesDigest(Digests[k]), smtp_echecs)
              IN  <<e>> \o (IF EnvoiLeve(e.transport) THEN <<>>
                            ELSE Evaluer(k + 1, panne, smtp_echecs))
         ELSE Evaluer(k + 1, panne, smtp_echecs)

\* verifier_et_alerter wraps all it does in try/except Exception and only
\* logs what it catches, so that no failure of get_db or of a query leaves
\* it; "from database import get_db" stands before the try
verifier_leve(panne) == panne = "import"

\* the except block of run_alerte_job is missing
RetourAlerte_mut(leve) == IF leve THEN "RAISED" ELSE "SUCCESS"

\* run_alerte_job: SUCCESS, or ERROR when an exception reaches it
RetourAlerte(leve) == IF leve THEN "ERROR" ELSE "SUCCESS"

\* the alert jobs followed between two scraping jobs
MaxAlerteRuns == 2

\* an alert job that removes from the table the alerts it has fetched
RunAlerteJob_mut ==
    /\ pc \in {"idle", "done"}
    /\ alerte_runs < MaxAlerteRuns
    /\ alerte_runs' = alerte_runs + 1
    /\ \E panne \in {"aucune", "import", "get_db", "alertes", "nouveaux",
                     "deals"},
          smtp_echecs \in SUBSET Range(Digests) :
        /\ panne # "aucune" => StoreFaillible
        /\ panne = "get_db" => db_instance = "None"
        /\ smtp_echecs # {} => SmtpConfigure
        /\ db_instance' = IF panne \in {"import", "get_db"} THEN db_instance
                          ELSE "db"
        /\ envois' = IF panne \in {"import", "get_db"} THEN <<>>
                     ELSE Evaluer(1, panne, smtp_echecs)
        /\ alerte_result' = RetourAlerte(verifier_leve(panne))
        /\ alerte_erreur' = IF panne = "aucune" THEN "None" ELSE panne
        /\ alertes' = IF panne \in {"import", "get_db", "alertes"} THEN alertes
                      ELSE SubSeq(alertes, 1,
                                  Len(alertes)
                                    - Len(get_alertes_recentes(LIMITE_ALERTES)))
    /\ UNCHANGED <<scenario, today, runs, produits, prix_historique,
                   scraping_logs, pc, scraperVars,
                   insertVars, logVars, erreur, result, concVars>>

\* run_alerte_job: get_alerte_manager().verifier_et_alerter(), then the
\* SUCCESS return, or the ERROR return when an exception reaches it
RunAlerteJob ==
    /\ pc \in {"idle", "done"}
    /\ alerte_runs < MaxAlerteRuns
    /\ alerte_runs' = alerte_runs + 1
    /\ \E panne \in {"aucune", "import", "get_db", "alertes", "nouveaux",
                     "deals"},
          smtp_echecs \in SUBSET Range(Digests) :
        /\ panne # "aucune" => StoreFaillible
        /\ panne = "get_db" => db_instance = "None"
        /\ smtp_echecs # {} => SmtpConfigure
        /\ db_instance' = IF panne \in {"import", "get_db"} THEN db_instance
                          ELSE "db"
        /\ envois' = IF panne \in {"import", "get_db"} THEN <<>>
                     ELSE Evaluer(1, panne, smtp_echecs)
        /\ alerte_result' = RetourAlerte(verifier_leve(panne))
        /\ alerte_erreur' = IF panne = "aucune" THEN "None" ELSE panne
    /\ UNCHANGED <<scenario, today, runs, storeVars, pc, scraperVars,
                   insertVars, logVars, erreur, result, concVars>>

\* ------------------------------------------------------------ specification
Next ==
    \/ NextDay
    \/ StartJob
    \/ PageErreur
    \/ PageTimeout
    \/ PageVide
    \/ PageResultats
    \/ FinBoucle
    \/ Pipelines
    \/ GetDb
    \/ GetDbEchec
    \/ InsererProduit
    \/ InsererProduitEchec
    \/ Commit
    \/ CommitEchec
    \/ LogSucces
    \/ LogSuccesEchec
    \/ LogErreur
    \/ LogErreurEchec
    \/ RunAlerteJob

Spec == Init /\ [][Next]_vars

\* ------------------------------------- the deduplication of scraper_amazon
\* one scrape on the titles of ElementsDedup, every page observed
InitDedup == scenario = "dedup" /\ InitEtat

PageObservee == ChargerResultats(TRUE)

NextDedup ==
    \/ StartJob
    \/ PageTimeout
    \/ PageVide
    \/ PageObservee
    \/ FinBoucle

SpecDedup == InitDedup /\ [][NextDedup]_vars

\* ------------------------- records with missing fields, through the whole job
\* jobs on the pages of ElementsManquants, every page observed, on a site
\* and a store that do not fail
InitManquants == scenario = "manquants" /\ InitEtat

NextManquants ==
    \/ StartJob
    \/ PageObservee
    \/ FinBoucle
    \/ Pipelines
    \/ GetDb
    \/ InsererProduit
    \/ Commit
    \/ LogSucces
    \/ LogErreur

SpecManquants == InitManquants /\ [][NextManquants]_vars

\* --------------------------------------- a configured price-drop threshold
\* SEUIL_BAISSE_PRIX of alertes.py, read from the environment variable of
\* the same name (default 10); the environment of the scenario "seuil"
\* sets it to 20
SEUIL_BAISSE_PRIX == IF scenario = "seuil" THEN 20 ELSE 10

\* jobs of one day on the prices of ElementsSeuil, site and store reliable
InitSeuil == scenario = "seuil" /\ InitEtat

NextSeuil ==
    \/ StartJob
    \/ PageResultats
    \/ FinBoucle
    \/ Pipelines
    \/ GetDb
    \/ InsererProduit
    \/ Commit
    \/ LogSucces

SpecSeuil == InitSeuil /\ [][NextSeuil]_vars

\* ----------------------------------------------------- the price of a text
\* Scraping jobs on pages whose prices are written with thousands
\* separators, the page and the records kept from it being observed.
InitSeparateurs == scenario = "separateurs" /\ InitEtat

NextSeparateurs ==
    \/ StartJob
    \/ PageObservee
    \/ FinBoucle

SpecSeparateurs == InitSeparateurs /\ [][NextSeparateurs]_vars

\* ------------------------------------------------------ the pagination loop
\* scraper_amazon called with any number of products and of pages, zero
\* included, on a site that serves timeouts, empty pages and pages of new
\* and duplicate products in any order.  An iteration of the loop that has
\* started completes: the driver waits 15 seconds at most for a page.
NbProduitsPagination == {0, 1, 2, 5}

AppelPagination == Appeler(NbProduitsPagination, 0..MaxPagesParam)

InitPagination == scenario = "pagination" /\ InitEtat

NextPagination ==
    \/ AppelPagination
    \/ PageErreur
    \/ PageTimeout
    \/ PageVide
    \/ PageResultats
    \/ FinBoucle

SpecPagination ==
    InitPagination /\ [][NextPagination]_vars /\ WF_vars(NextPagination)

\* ------------------------------------------------------ overlapping runs
\* The scheduler thread and the thread of the page both call
\* run_scraping_job (app.py, job_scraping_background and the button of the
\* page), on the one DatabaseManager of get_db and its one connection.
\* Nothing orders them: each statement a thread executes on the connection
\* is a step of its own, and the statements of the threads interleave.  The
\* batches of the threads are taken as scraped; the runs are runs of one
\* day.
NbFils == 2

Fils == 1..NbFils

ElementsConcurrents ==
    {El(TitreA, 1000, "XAF", 40, "img1"),
     El(TitreA, 880, "XAF", 40, "img1"),
     El(TitreB, 1000, "XAF", 45, "img1")}

\* the enriched batch scraped from one page
Lot(page) ==
    appliquer_pipelines(DataFrame(TraiterElements(page, <<>>, {}).produits))

LotsConcurrents ==
    {Lot(page) : page \in SeqsUpTo(ElementsConcurrents, MaxPage) \ {<<>>}}

\* fetchone() returned None
NoExisting == [id |-> 0, prix |-> None, vote |-> None]

\* a thread that runs no job.  absents and inseres are the products the
\* thread has seen "not found" and the products it has inserted, over all
\* its runs.
FilRepos ==
    [pc |-> "idle", df |-> <<>>, idx |-> 0, existing |-> NoExisting,
     nouveaux |-> 0, mises_a_jour |-> 0, absents |-> {}, inseres |-> {}]

\* the thread f calls run_scraping_job; its batch is scraped and enriched,
\* and inserer_produits starts on it
LancerFil(f) ==
    /\ fils[f].pc \in {"idle", "done", "error"}
    /\ runs < MaxRuns
    /\ runs' = runs + 1
    /\ db_instance' = "db"
    /\ \E df \in LotsConcurrents :
        fils' = [fils EXCEPT ![f] = [FilRepos EXCEPT
                                        !.pc = "select",
                                        !.df = df, !.idx = 1,
                                        !.absents = fils[f].absents,
                                        !.inseres = fils[f].inseres]]
    /\ UNCHANGED <<scenario, today, storeVars, pc, scraperVars, insertVars,
                   logVars, erreur, result, alerteVars>>

\* SELECT id, prix, vote ... WHERE hash_produit = ? AND DATE(date_scraping)
\* = DATE('now'), and fetchone()
SelectFil(f) ==
    /\ fils[f].pc = "select"
    /\ LET row == fils[f].df[fils[f].idx]
           E == Existants(row)
       IN  \E e \in (IF E = {} THEN {0} ELSE E) :
            fils' = [fils EXCEPT
                ![f].pc = "statement",
                ![f].existing =
                    IF e = 0 THEN NoExisting
                    ELSE [id |-> produits[e].id, prix |-> produits[e].prix,
                          vote |-> produits[e].vote],
                ![f].absents = IF e = 0 THEN @ \cup {HashBase(row)} ELSE @]
    /\ UNCHANGED <<scenario, today, runs, db_instance, storeVars, pc,
                   scraperVars, insertVars, logVars, erreur, result,
                   alerteVars>>

\* an INSERT that leaves the table alone when it holds a row of the product
\* and the day
InsererLigne_mut(table, row, jour) ==
    IF \E i \in 1..Len(table) : /\ table[i].hash_produit = HashBase(row)
                                /\ table[i].date_scraping = jour
    THEN table
    ELSE Append(table, LigneProduit(row, Len(table) + 1, jour))

\* INSERT INTO produits: a row is added, whatever the table holds
InsererLigne(table, row, jour) ==
    Append(table, LigneProduit(row, Len(table) + 1, jour))

\* The branch on existing.  Found and changed: the UPDATE.  Not found: the
\* INSERT.  The table has UNIQUE(hash_produit, date_scraping) on the
\* timestamp, which counts seconds: when the table holds a row of the
\* product and the day, the INSERT either falls in the second of that row
\* and raises IntegrityError, which leaves inserer_produits, or falls in
\* another second and adds a second row.
StatementFil(f) ==
    /\ fils[f].pc = "statement"
    /\ LET row == fils[f].df[fils[f].idx]
           existing == fils[f].existing
       IN  IF existing # NoExisting
           THEN IF Change(existing, row)
                THEN /\ produits' = MajProduit(produits, existing.id, row)
                     /\ fils' = [fils EXCEPT ![f].pc = "alerte"]
                ELSE /\ fils' = [fils EXCEPT ![f].pc = "historique"]
                     /\ UNCHANGED produits
           ELSE \/ /\ produits' = InsererLigne(produits, row, today)
                   /\ fils' = [fils EXCEPT
                          ![f].pc = "historique",
                          ![f].nouveaux = @ + 1,
                          ![f].inseres = @ \cup {HashBase(row)}]
                \/ /\ Existants(row) # {}
                   /\ fils' = [fils EXCEPT ![f].pc = "error"]
                   /\ UNCHANGED produits
    /\ UNCHANGED <<scenario, today, runs, db_instance, prix_historique,
                   alertes, scraping_logs, pc, scraperVars, insertVars,
                   logVars, erreur, result, alerteVars>>

\* _enregistrer_changement_prix after the UPDATE
AlerteFil(f) ==
    /\ fils[f].pc = "alerte"
    /\ LET row == fils[f].df[fils[f].idx]
           existing == fils[f].existing
       IN  alertes' =
             IF BaisseSignificative(existing.prix, row.Prix)
             THEN Append(alertes, LigneAlerte(HashBase(row), existing.prix,
                                              row.Prix, today))
             ELSE alertes
    /\ fils' = [fils EXCEPT ![f].pc = "historique",
                            ![f].mises_a_jour = @ + 1]
    /\ UNCHANGED <<scenario, today, runs, db_instance, produits,
                   prix_historique, scraping_logs, pc, scraperVars,
                   insertVars, logVars, erreur, result, alerteVars>>

\* INSERT INTO prix_historique, and the next record of the batch
HistoriqueFil(f) ==
    /\ fils[f].pc = "historique"
    /\ prix_historique' =
          Append(prix_historique,
                 LigneHistorique(fils[f].df[fils[f].idx], today))
    /\ fils' = [fils EXCEPT
            ![f].idx = @ + 1,
            ![f].pc = IF fils[f].idx = Len(fils[f].df) THEN "commit"
                      ELSE "select"]
    /\ UNCHANGED <<scenario, today, runs, db_instance, produits, alertes,
                   scraping_logs, pc, scraperVars, insertVars, logVars,
                   erreur, result, alerteVars>>

\* connection.commit() at the end of inserer_produits
CommitFil(f) ==
    /\ fils[f].pc = "commit"
    /\ fils' = [fils EXCEPT ![f].pc = "done"]
    /\ durable' = connection_commit(Tables)
    /\ UNCHANGED <<scenario, today, runs, db_instance, storeVars, pc,
                   scraperVars, insertVars, log_echecs, erreur, result,
                   alerteVars>>

InitConcurrent ==
    /\ scenario = "concurrent"
    /\ InitJob
    /\ fils = [f \in Fils |-> FilRepos]

NextConcurrent ==
    \E f \in Fils :
        \/ LancerFil(f)
        \/ SelectFil(f)
        \/ StatementFil(f)
        \/ AlerteFil(f)
        \/ HistoriqueFil(f)
        \/ CommitFil(f)

SpecConcurrent == InitConcurrent /\ [][NextConcurrent]_vars

\* ----------------------------------------------------- concurrent get_db
\* The scheduler thread and the thread of the page call get_db, each a
\* bounded number of times.  get_db reads the global, tests it, builds a
\* DatabaseManager when it was None, assigns the global, reads the global
\* again and returns it; a thread may be suspended between any two of
\* these, and so may it while DatabaseManager() connects and creates the
\* tables.
MaxAppels == 2

\* the DatabaseManager built by the thread f
Gestionnaire(f) == IF f = 1 THEN "db1" ELSE "db2"

\* a thread outside get_db: construit tells that it has built a
\* DatabaseManager, retours are the instances get_db has returned to it
FilGetDb == [pc |-> "idle", appels |-> 0, construit |-> FALSE, retours |-> {}]

\* the thread f calls get_db()
AppelGetDb(f) ==
    /\ fils[f].pc = "idle"
    /\ fils[f].appels < MaxAppels
    /\ fils' = [fils EXCEPT ![f].pc = "test", ![f].appels = @ + 1]
    /\ UNCHANGED <<scenario, today, runs, db_instance, storeVars, pc,
                   scraperVars, insertVars, logVars, erreur, result,
                   alerteVars>>

\* if _db_instance is None
TestGetDb(f) ==
    /\ fils[f].pc = "test"
    /\ fils' = [fils EXCEPT ![f].pc = IF db_instance = "None"
                                      THEN "construire" ELSE "retour"]
    /\ UNCHANGED <<scenario, today, runs, db_instance, storeVars, pc,
                   scraperVars, insertVars, logVars, erreur, result,
                   alerteVars>>

\* DatabaseManager()
ConstruireGetDb(f) ==
    /\ fils[f].pc = "construire"
    /\ fils' = [fils EXCEPT ![f].pc = "affecter", ![f].construit = TRUE]
    /\ UNCHANGED <<scenario, today, runs, db_instance, storeVars, pc,
                   scraperVars, insertVars, logVars, erreur, result,
                   alerteVars>>

\* _db_instance = the instance built
AffecterGetDb(f) ==
    /\ fils[f].pc = "affecter"
    /\ db_instance' = Gestionnaire(f)
    /\ fils' = [fils EXCEPT ![f].pc = "retour"]
    /\ UNCHANGED <<scenario, today, runs, storeVars, pc, scraperVars,
                   insertVars, logVars, erreur, result, alerteVars>>

\* return _db_instance
RetourGetDb(f) ==
    /\ fils[f].pc = "retour"
    /\ fils' = [fils EXCEPT ![f].pc = "idle",
                            ![f].retours = @ \cup {db_instance}]
    /\ UNCHANGED <<scenario, today, runs, db_instance, storeVars, pc,
                   scraperVars, insertVars, logVars, erreur, result,
                   alerteVars>>

InitGetDb ==
    /\ scenario = "get_db"
    /\ InitJob
    /\ fils = [f \in Fils |-> FilGetDb]

NextGetDb ==
    \E f \in Fils :
        \/ AppelGetDb(f)
        \/ TestGetDb(f)
        \/ ConstruireGetDb(f)
        \/ AffecterGetDb(f)
        \/ RetourGetDb(f)

SpecGetDb == InitGetDb /\ [][NextGetDb]_vars

\* --------------------------------------------- the enrichment of one batch
\* Scraping jobs up to the enrichment of the batch, on pages whose prices
\* lie on both sides of every step of the price buckets.
InitCategories == scenario = "categories" /\ InitEtat

NextCategories ==
    \/ StartJob
    \/ PageResultats
    \/ FinBoucle
    \/ Pipelines

SpecCategories == InitCategories /\ [][NextCategories]_vars

\* ------------------------------------------------- the alert job on a store
\* The alert job reads what the scraping jobs of the days before and of
\* today have stored.  Its specification starts from such stores: a number
\* of alerts over two days, and product rows of today above, at, below and
\* without the ratio the deals are selected by, and rows of yesterday.
MaxAlertes == 51
MaxAffaires == 11

\* n alerts inserted by _enregistrer_changement_prix, the first half of
\* them yesterday
AlertesStockees(n) ==
    [i \in 1..n |-> LigneAlerte(Md5(TitreA), 1000 + i, 500,
                                IF 2 * i <= n THEN 1 ELSE 2)]

\* an enriched record of ratio f, as inserer_produits receives it
RecordRapport(k, f) ==
    [Titre |-> [j \in 1..k |-> "x"],
     Prix |-> IF f = FracNone THEN None ELSE 100,
     Vote |-> 40,
     Lien_Image |-> LienNone,
     Categorie_Prix |-> IF f = FracNone THEN "Inconnu" ELSE "Economique",
     Qualite_Vote |-> "Bon",
     Rapport_Qualite_Prix |-> f]

\* the rows of a store with k deals of today and the extra rows autres
ProduitsStockes(k, autres) ==
    LET hier == IF "hier" \in autres THEN <<<<Frac(9, 1), 1>>>> ELSE <<>>
        faible == IF "faible" \in autres THEN <<<<Frac(5, 1), 2>>>> ELSE <<>>
        egal == IF "egal" \in autres
                THEN <<<<Frac(SEUIL_RAPPORT_QUALITE_PRIX, 1), 2>>>> ELSE <<>>
        nul == IF "nul" \in autres THEN <<<<FracNone, 2>>>> ELSE <<>>
        deals == [i \in 1..k |-> <<Frac(17 + (i \div 2), 2), 2>>]
        lignes == hier \o nul \o faible \o deals \o egal
    IN  [i \in 1..Len(lignes) |->
            LigneProduit(RecordRapport(i, lignes[i][1]), i, lignes[i][2])]

InitDigest ==
    /\ scenario \in {"digest", "digest_off"}
    /\ today = 2
    /\ runs = 0
    /\ db_instance = "None"
    /\ \E n \in {0, 1, 2, LIMITE_ALERTES, MaxAlertes} :
            alertes = AlertesStockees(n)
    /\ \E k \in {0, 1, 2, LIMITE_BONNES_AFFAIRES, MaxAffaires},
          autres \in SUBSET {"hier", "faible", "egal", "nul"} :
            produits = ProduitsStockes(k, autres)
    /\ prix_historique = <<>>
    /\ scraping_logs = <<>>
    /\ pc = "idle"
    /\ nb_min_produits = 0
    /\ max_pages = 0
    /\ page_actuelle = 0
    /\ pages_vides_consecutives = 0
    /\ produits_scrapes = <<>>
    /\ produits_vus = {}
    /\ page_recue = <<>>
    /\ avant_page = AucunePage
    /\ charges = AucuneCharge
    /\ df_clean = <<>>
    /\ idx = 0
    /\ nouveaux = 0
    /\ mises_a_jour = 0
    /\ iter = NoIter
    /\ avant = TablesVides
    /\ log_echecs = 0
    /\ durable = Tables
    /\ erreur = "None"
    /\ result = NoResult
    /\ envois = <<>>
    /\ alerte_result = "NONE"
    /\ alerte_erreur = "None"
    /\ alerte_runs = 0
    /\ fils = AucunFil

NextDigest == RunAlerteJob

SpecDigest == InitDigest /\ [][NextDigest]_vars

\* ================================================================= claims
\* the value a numeric cell of the batch has once stored: a missing value
\* (None or NaN) is NULL
Stocke(v) == IF IsNa(v) THEN None ELSE v

\* the last iteration of inserer_produits ran all its statements
IterFaite == iter.fait /\ iter.echec = "aucun"

\* C1: under serialized runs the product table holds at most one row per
\* (identity, calendar day), and ingesting an identity that has a row for
\* today never inserts a second row.
C1_UneLigneParJour ==
    /\ \A i, j \in 1..Len(produits) :
        (/\ produits[i].hash_produit = produits[j].hash_produit
         /\ produits[i].date_scraping = produits[j].date_scraping) => i = j
    /\ (iter.fait /\ iter.existe) =>
        Len(produits) = Len(iter.avant.produits)

\* an identity found for today was ingested again while another identity
\* has rows on two days
C1_Witness ==
    /\ IterFaite /\ iter.existe
    /\ \E i, j \in 1..Len(produits) :
        /\ produits[i].hash_produit = produits[j].hash_produit
        /\ produits[i].date_scraping # produits[j].date_scraping

\* C2: every record processed by inserer_produits appends exactly one
\* history point with the record's identity, price and rating, whether the
\* record was new, updated or unchanged; a successful ingestion of n records
\* grows the history by n.
C2_HistoriqueParRecord ==
    /\ IterFaite =>
        prix_historique =
            Append(iter.avant.prix_historique,
                   [hash_produit |-> iter.row.Hash_Produit,
                    prix |-> Stocke(iter.row.Prix),
                    vote |-> Stocke(iter.row.Vote),
                    date_observation |-> iter.jour])
    /\ (pc = "log" \/ (pc = "done" /\ result.status = "SUCCESS")) =>
        Len(prix_historique) = Len(avant.prix_historique) + Len(df_clean)

\* a successful ingestion of two records, one updated and one unchanged
C2_Witness ==
    /\ pc = "done" /\ result.status = "SUCCESS"
    /\ Len(df_clean) = 2 /\ nouveaux = 0 /\ mises_a_jour = 1
    /\ Len(prix_historique) = 4

\* C3: ingesting a record a second time on the same day with price and
\* rating identical to the stored ones, missing values included, does not
\* mutate the product row and changes neither counter, while the history
\* grows by one point.
C3_ReingestionIdentique ==
    (/\ IterFaite /\ iter.existe
     /\ Stocke(iter.row.Prix) = iter.old_prix
     /\ Stocke(iter.row.Vote) = iter.old_vote) =>
        /\ produits = iter.avant.produits
        /\ nouveaux = iter.nouveaux
        /\ mises_a_jour = iter.mises_a_jour
        /\ Len(prix_historique) = Len(iter.avant.prix_historique) + 1

\* the last iteration incremented the updated counter
IterMiseAJour == mises_a_jour = iter.mises_a_jour + 1

\* C4: while a record whose identity has a row for today is ingested, a
\* BAISSE_PRIX alert with the old and the new price is inserted if and only
\* if the row is updated, both prices are present and non-zero and
\* (new - old) / old * 100 < -10: 1000 -> 880 fires, 1000 -> 905 and
\* 1000 -> 900 do not.
C4_AlerteBaissePrix ==
    (iter.fait /\ iter.echec \in {"aucun", "historique"}) =>
        LET old == iter.old_prix
            new == iter.row.Prix
            n == Len(iter.avant.alertes)
            due == /\ iter.existe /\ IterMiseAJour
                   /\ old # None /\ old # 0
                   /\ ~IsNa(new) /\ new # 0
                   /\ (new - old) * 100 < (0 - 10) * old
        IN  /\ due =>
                /\ Len(alertes) = n + 1
                /\ SubSeq(alertes, 1, n) = iter.avant.alertes
                /\ alertes[n + 1].type_alerte = "BAISSE_PRIX"
                /\ alertes[n + 1].hash_produit = iter.row.Hash_Produit
                /\ alertes[n + 1].ancien_prix = old
                /\ alertes[n + 1].nouveau_prix = new
            /\ ~due => alertes = iter.avant.alertes
            /\ (iter.existe /\ old = 1000 /\ new = 880) => Len(alertes) = n + 1
            /\ (old = 1000 /\ new \in {900, 905}) => alertes = iter.avant.alertes

\* the price of a row of today went from 1000 to 880 and the alert is there
C4_Witness ==
    /\ IterFaite /\ iter.existe
    /\ iter.old_prix = 1000 /\ iter.row.Prix = 880
    /\ Len(alertes) = Len(iter.avant.alertes) + 1

\* seq is what it was in old, rows appended or not
Prolonge(old, seq) ==
    Len(old) <= Len(seq) /\ SubSeq(seq, 1, Len(old)) = old

\* a store statement raised while record idx of the batch was processed
EchecRecord == iter.fait /\ iter.echec # "aucun"

\* C5: when a store operation fails while inserer_produits processes
\* record k, no record after k is processed, run_scraping_job returns
\* status ERROR with the message of the error, and the product, history and
\* alert writes made for the records before k are still in the store after
\* the job has returned.
C5_EchecStore ==
    (pc = "done" /\ EchecRecord) =>
        /\ result.status = "ERROR"
        /\ result.error = "StoreError"
        /\ iter.row = df_clean[idx]
        /\ Len(prix_historique) = Len(avant.prix_historique) + idx - 1
        /\ nouveaux + mises_a_jour <= idx
        /\ Len(iter.avant.prix_historique) = Len(avant.prix_historique) + idx - 1
        /\ Prolonge(iter.avant.prix_historique, prix_historique)
        /\ Prolonge(iter.avant.alertes, alertes)
        /\ Len(iter.avant.produits) <= Len(produits)
        /\ \A i \in 1..Len(iter.avant.produits) :
            i # iter.id => produits[i] = iter.avant.produits[i]

\* the second record of a batch failed after the first one was inserted:
\* the job has returned and the row and the history point of the first are
\* there
C5_Witness ==
    /\ pc = "done" /\ EchecRecord
    /\ idx = 2
    /\ Len(iter.avant.produits) = Len(avant.produits) + 1
    /\ Len(produits) >= Len(avant.produits) + 1
    /\ Len(prix_historique) = Len(avant.prix_historique) + 1

\* the run-log rows of the job that returned are one row, whose status is
\* the returned one and which carries the counts or the error detail
UnLogDuJob ==
    LET n == Len(avant.scraping_logs)
    IN  /\ Len(scraping_logs) = n + 1
        /\ SubSeq(scraping_logs, 1, n) = avant.scraping_logs
        /\ scraping_logs[n + 1].statut = result.status
        /\ result.status = "SUCCESS" =>
            /\ scraping_logs[n + 1].nb_produits_scrapes = result.nb_produits
            /\ scraping_logs[n + 1].nb_nouveaux = result.nouveaux
            /\ scraping_logs[n + 1].nb_mises_a_jour = result.mises_a_jour
        /\ result.status = "ERROR" =>
            scraping_logs[n + 1].message_erreur = result.error

C7_PasDeLevee ==
    /\ pc # "raised"
    /\ pc = "done" => result.status \in {"SUCCESS", "ERROR"}
    /\ pc = "done" /\ erreur # "None" => result.status = "ERROR"
    /\ alerte_result \in {"NONE", "SUCCESS", "ERROR"}

\* a scraping job that met an empty result list (KeyError of the pipelines)
\* returned ERROR, then an alert job that could not import returned ERROR
C7_Witness ==
    /\ pc = "done" /\ result.status = "ERROR" /\ erreur = "KeyError"
    /\ alerte_result = "ERROR"

\* the identity of the record extracted from an element
Identite(el) == calculer_hash_produit(extraire_info_produit(el).Titre)

\* the positions of the last page whose extraction gave a record with title
AvecTitre ==
    {i \in 1..Len(page_recue) :
        /\ ~page_recue[i].stale
        /\ extraire_info_produit(page_recue[i]).Titre \notin {NoTitre, <<>>}}

\* among them, the first occurrences of identities not seen on earlier pages
Retenus ==
    {i \in AvecTitre :
        /\ Identite(page_recue[i]) \notin avant_page.produits_vus
        /\ \A j \in AvecTitre :
            j < i => Identite(page_recue[j]) # Identite(page_recue[i])}

\* the k-th position of Retenus
Retenu(k) ==
    CHOOSE i \in Retenus : Cardinality({j \in Retenus : j < i}) = k - 1

\* C8: the deduplication of scraper_amazon emits at most one record per
\* identity, in first-occurrence order, no more records than it received,
\* and drops every record whose identity was seen earlier in the scrape,
\* on the same page or on a page before.
C8_Deduplication ==
    LET n0 == Len(avant_page.produits)
        n == Len(produits_scrapes)
    IN  /\ \A i, j \in 1..n :
            i # j => produits_scrapes[i].Hash_Produit
                        # produits_scrapes[j].Hash_Produit
        /\ produits_vus = {produits_scrapes[i].Hash_Produit : i \in 1..n}
        /\ page_recue # <<>> =>
            /\ Prolonge(avant_page.produits, produits_scrapes)
            /\ n - n0 = Cardinality(Retenus)
            /\ n - n0 <= Cardinality(AvecTitre)
            /\ \A k \in 1..(n - n0) :
                /\ produits_scrapes[n0 + k].Hash_Produit
                        = Identite(page_recue[Retenu(k)])
                /\ produits_scrapes[n0 + k].Titre
                        = extraire_info_produit(page_recue[Retenu(k)]).Titre
                /\ produits_scrapes[n0 + k].Prix
                        = page_recue[Retenu(k)].texte_prix.montant

\* a second page brought a record seen on the first page, which was
\* dropped, and a record of a new identity, which was kept
C8_Witness ==
    /\ avant_page.produits # <<>>
    /\ Len(page_recue) = 2
    /\ AvecTitre = {1, 2}
    /\ Identite(page_recue[1]) \in avant_page.produits_vus
    /\ Retenus = {2}
    /\ Len(produits_scrapes) = Len(avant_page.produits) + 1

\* the stored price or rating of the row found differs from the record's,
\* two missing values being equal
ValeursDifferentes ==
    \/ Stocke(iter.row.Prix) # iter.old_prix
    \/ Stocke(iter.row.Vote) # iter.old_vote

\* C9: inserer_produits returns counts {new, updated, total}: total is the
\* number of records of the deduplicated batch, new the number of records
\* without a row for today when processed, updated the number of records
\* whose stored price or rating differed, so new + updated <= total; a
\* scrape of 5 unique and 2 duplicate titles on a store without rows makes
\* the job report new = 5, total = 5, updated = 0.
C9_Comptes ==
    /\ IterFaite =>
        /\ nouveaux = iter.nouveaux + (IF iter.existe THEN 0 ELSE 1)
        /\ mises_a_jour = iter.mises_a_jour
                + (IF iter.existe /\ ValeursDifferentes THEN 1 ELSE 0)
    /\ (pc = "done" /\ result.status = "SUCCESS") =>
        /\ result.nb_produits = Len(df_clean)
        /\ result.nouveaux = nouveaux
        /\ result.mises_a_jour = mises_a_jour
        /\ result.nouveaux + result.mises_a_jour <= result.nb_produits
        /\ (scenario = "e2e" /\ avant.produits = <<>>) =>
            /\ result.nouveaux = 5
            /\ result.nb_produits = 5
            /\ result.mises_a_jour = 0

\* the value ratio of the batch once stored: a missing ratio is NULL
StockeRapport(f) == IF f \in {FracNone, FracNaN} THEN FracNone ELSE f

\* the UPDATE of the last iteration was executed
MajExecutee ==
    /\ iter.fait /\ iter.existe
    /\ iter.echec \in {"aucun", "alerte", "historique"}
    /\ ValeursDifferentes

\* C10: when the row of today is updated because the incoming price or
\* rating differs, exactly its price, rating, price bucket, rating bucket
\* and value ratio are overwritten with the incoming values; its title,
\* image URL, timestamp and identity and every other product row are
\* unchanged, and no row is inserted.
C10_CadreMiseAJour ==
    MajExecutee =>
        /\ Len(produits) = Len(iter.avant.produits)
        /\ \A i \in 1..Len(produits) :
            produits[i] =
                IF iter.avant.produits[i].id = iter.id
                THEN [iter.avant.produits[i] EXCEPT
                        !.prix = Stocke(iter.row.Prix),
                        !.vote = Stocke(iter.row.Vote),
                        !.categorie_prix = iter.row.Categorie_Prix,
                        !.qualite_vote = iter.row.Qualite_Vote,
                        !.rapport_qualite_prix =
                            StockeRapport(iter.row.Rapport_Qualite_Prix)]
                ELSE iter.avant.produits[i]

\* a row with image img1 was updated by a record of another price and
\* image, next to another row of the table: the image of the row is kept
C10_Witness ==
    /\ MajExecutee /\ iter.echec = "aucun"
    /\ Len(produits) >= 2
    /\ iter.row.Lien_Image = "img2"
    /\ \E i \in 1..Len(produits) :
        /\ produits[i].id = iter.id
        /\ produits[i].lien_image = "img1"
        /\ produits[i].prix = iter.row.Prix
        /\ produits[i].prix # iter.old_prix

\* C11: no operation (ingestion, run logging, alert evaluation) deletes a
\* product row, or updates or deletes a row of the price history, of the
\* alerts or of the run log: every step leaves the rows of these three
\* tables as they were, appending or not, and keeps every product row.
C11_AjoutSeul ==
    [][/\ Len(produits') >= Len(produits)
       /\ \A i \in 1..Len(produits) :
            /\ produits'[i].id = produits[i].id
            /\ produits'[i].hash_produit = produits[i].hash_produit
            /\ produits'[i].date_scraping = produits[i].date_scraping
       /\ Prolonge(prix_historique, prix_historique')
       /\ Prolonge(alertes, alertes')
       /\ Prolonge(scraping_logs, scraping_logs')]_vars

\* the four tables have rows, a row was updated by the last job and the
\* alert job has run after it
C11_Witness ==
    /\ pc = "done" /\ result.status = "SUCCESS" /\ mises_a_jour >= 1
    /\ Len(produits) >= 1 /\ Len(prix_historique) >= 2
    /\ Len(alertes) >= 1 /\ Len(scraping_logs) >= 2
    /\ alerte_result = "SUCCESS"

\* when the ingestion started the table held, for every record of the
\* batch, a row of today with the values of the record: the state an
\* ingestion of this batch on this day leaves
DejaIngere ==
    /\ df_clean # <<>>
    /\ \A i \in 1..Len(df_clean) :
        \E j \in 1..Len(avant.produits) :
            /\ avant.produits[j].hash_produit = df_clean[i].Hash_Produit
            /\ avant.produits[j].date_scraping = today
            /\ avant.produits[j].prix = Stocke(df_clean[i].Prix)
            /\ avant.produits[j].vote = Stocke(df_clean[i].Vote)
            /\ avant.produits[j].categorie_prix = df_clean[i].Categorie_Prix
            /\ avant.produits[j].qualite_vote = df_clean[i].Qualite_Vote
            /\ avant.produits[j].rapport_qualite_prix
                    = StockeRapport(df_clean[i].Rapport_Qualite_Prix)

\* inserer_produits has returned from the whole batch
IngestionFinie ==
    \/ pc = "log"
    \/ pc = "done" /\ result.status = "SUCCESS"

\* C12: ingesting the same deduplicated, enriched batch a second time on
\* the same day leaves the product table as the first ingestion left it,
\* rows and field values, and inserts no alert.
C12_Idempotence ==
    (IngestionFinie /\ DejaIngere) =>
        /\ produits = avant.produits
        /\ alertes = avant.alertes

\* the second job of the day ingested the two records the table already
\* held, one of them with a missing price for which the UPDATE ran
C12_Witness ==
    /\ pc = "done" /\ result.status = "SUCCESS" /\ DejaIngere
    /\ runs = 2 /\ Len(df_clean) = 2
    /\ result.mises_a_jour = 1
    /\ produits = avant.produits

\* the price text has neither a currency marker nor a digit
SansPrix(el) ==
    /\ el.texte_prix.montant = None
    /\ Range(el.texte_prix.mots) \cap {"XAF", "CFA", "$", "USD", "EUR"} = {}

\* a missing value ratio
RapportNul(f) == f \in {FracNone, FracNaN}

C14_SeuilConfigure ==
    (IterFaite /\ iter.existe
        /\ iter.old_prix # None /\ iter.old_prix # 0
        /\ ~IsNa(iter.row.Prix) /\ iter.row.Prix # 0) =>
        ((Len(alertes) = Len(iter.avant.alertes) + 1)
            <=> ((iter.row.Prix - iter.old_prix) * 100
                    < (0 - SEUIL_BAISSE_PRIX) * iter.old_prix))

\* the data of each digest in the store the alert job reads
DonneesPresentes(digest) ==
    CASE digest = "BAISSE_PRIX" ->
            \E i \in 1..Len(alertes) : alertes[i].type_alerte = "BAISSE_PRIX"
      [] digest = "NOUVEAUX" ->
            \E i \in 1..Len(produits) : produits[i].date_scraping = today
      [] digest = "BONNES_AFFAIRES" ->
            \E i \in 1..Len(produits) :
                /\ produits[i].date_scraping = today
                /\ produits[i].rapport_qualite_prix # FracNone
                /\ produits[i].rapport_qualite_prix[1]
                      > 8 * produits[i].rapport_qualite_prix[2]

\* the number of dispatches of a digest by the last alert job
NbEnvois(digest) ==
    Cardinality({i \in 1..Len(envois) : envois[i].digest = digest})

\* C15: the three digests are gated independently.  Whatever the
\* combination of price-drop alerts, rows of today and best-value rows the
\* store holds, an alert job dispatches each digest once when the data of
\* that digest is present and not at all when it is absent; the absence of
\* the data of one digest does not keep the others from being evaluated
\* and dispatched.
C15_DigestsIndependants ==
    alerte_result # "NONE" =>
        \A digest \in {"BAISSE_PRIX", "NOUVEAUX", "BONNES_AFFAIRES"} :
            NbEnvois(digest) = IF DonneesPresentes(digest) THEN 1 ELSE 0

\* an alert job on a store without alert but with rows and deals of today:
\* the two later digests are dispatched
C15_Witness ==
    /\ alerte_result = "SUCCESS"
    /\ ~DonneesPresentes("BAISSE_PRIX")
    /\ DonneesPresentes("NOUVEAUX")
    /\ DonneesPresentes("BONNES_AFFAIRES")
    /\ NbEnvois("BAISSE_PRIX") = 0
    /\ NbEnvois("NOUVEAUX") = 1
    /\ NbEnvois("BONNES_AFFAIRES") = 1

\* the digests evaluated after digest
DigestsSuivants(digest) ==
    {Digests[k] : k \in {j \in 1..Len(Digests) :
                            \E i \in 1..(j - 1) : Digests[i] = digest}}

\* C16: envoyer_email never raises.  It returns true only when the message
\* was sent, and false when the transport is disabled or fails.  After a
\* dispatch that failed, the evaluator still evaluates the digests that
\* remain, and run_alerte_job completes and returns a status.
C16_EnvoiSansLevee ==
    alerte_result # "NONE" =>
        /\ alerte_result \in {"SUCCESS", "ERROR"}
        /\ \A i \in 1..Len(envois) :
            /\ envois[i].envoye <=> envois[i].transport = "ok"
            /\ envois[i].transport \in {"desactive", "echec"}
                  => ~envois[i].envoye
            /\ ~envois[i].envoye =>
                  \A digest \in DigestsSuivants(envois[i].digest) :
                      DonneesPresentes(digest) => NbEnvois(digest) = 1

\* the SMTP dialogue of the first digest failed and the two others were sent
C16_Witness ==
    /\ alerte_result = "SUCCESS"
    /\ Len(envois) = 3
    /\ envois[1].transport = "echec" /\ ~envois[1].envoye
    /\ envois[2].envoye
    /\ envois[3].envoye

\* the prices known in the enriched batch
PrixConnus == {df_clean[i].Prix : i \in 1..Len(df_clean)} \ {None, NaN}

\* the batch has no maximum price or one that is not positive
SansMaximum == PrixConnus = {} \/ \A p \in PrixConnus : p <= 0

\* the ratio f is rating / (price / batchMaxPrice) for the record i, the
\* rating being counted in tenths
RapportExact(i, f) ==
    /\ f[2] > 0
    /\ \E m \in PrixConnus :
        /\ \A p \in PrixConnus : p <= m
        /\ f[1] * 10 * df_clean[i].Prix = f[2] * df_clean[i].Vote * m

\* prices [100, 200] and ratings [4.0, 5.0] give the ratios 8.0 and 5.0
ExempleRapport ==
    (/\ Len(df_clean) = 2
     /\ df_clean[1].Prix = 100 /\ df_clean[1].Vote = 40
     /\ df_clean[2].Prix = 200 /\ df_clean[2].Vote = 50)
    => /\ df_clean[1].Rapport_Qualite_Prix = <<8, 1>>
       /\ df_clean[2].Rapport_Qualite_Prix = <<5, 1>>

\* C17 as stated: the value ratio of an enriched record is null whenever
\* the price or the rating is missing or the batch maximum price is missing
\* or not positive, and otherwise equals rating / (price / batchMaxPrice).
C17_Original ==
    /\ \A i \in 1..Len(df_clean) :
        IF \/ IsNa(df_clean[i].Prix) \/ IsNa(df_clean[i].Vote)
           \/ SansMaximum
        THEN RapportNul(df_clean[i].Rapport_Qualite_Prix)
        ELSE RapportExact(i, df_clean[i].Rapport_Qualite_Prix)
    /\ ExempleRapport

\* C17: the value ratio of an enriched record is null whenever the price
\* or the rating is missing, the price is zero, or the batch maximum price
\* is missing or not positive; otherwise it equals
\* rating / (price / batchMaxPrice) with batchMaxPrice the maximum price of
\* the same batch.  Prices [100, 200] with ratings [4.0, 5.0] give the
\* ratios 8.0 and 5.0.
C17_RapportQualitePrix ==
    /\ \A i \in 1..Len(df_clean) :
        IF \/ IsNa(df_clean[i].Prix) \/ IsNa(df_clean[i].Vote)
           \/ df_clean[i].Prix = 0
           \/ SansMaximum
        THEN RapportNul(df_clean[i].Rapport_Qualite_Prix)
        ELSE RapportExact(i, df_clean[i].Rapport_Qualite_Prix)
    /\ ExempleRapport

\* the batch of the example has been enriched
C17_Witness ==
    /\ Len(df_clean) = 2
    /\ df_clean[1].Prix = 100 /\ df_clean[1].Vote = 40
    /\ df_clean[2].Prix = 200 /\ df_clean[2].Vote = 50
    /\ df_clean[1].Rapport_Qualite_Prix = <<8, 1>>
    /\ df_clean[2].Rapport_Qualite_Prix = <<5, 1>>

\* the bucket of a price p on the steps s1 < s2 < s3
Palier(p, s1, s2, s3) ==
    CASE p < s1 -> "Economique"
      [] p >= s1 /\ p < s2 -> "Moyen"
      [] p >= s2 /\ p < s3 -> "Cher"
      [] p >= s3 -> "Premium"

\* C18: the price bucket of a record is Unknown when the price is null.
\* For the currency XAF it is Economical below 100,000, Medium below
\* 300,000, Expensive below 600,000 and Premium otherwise; for USD the
\* steps are 150, 500 and 1000.  For every other currency value (EUR,
\* UNKNOWN, absent) it is Unknown whatever the price.
C18_CategoriePrix ==
    \A i \in 1..Len(df_clean) :
        LET r == df_clean[i]
        IN  /\ IsNa(r.Prix) => r.Categorie_Prix = "Inconnu"
            /\ ~IsNa(r.Prix) /\ r.Devise = "XAF" =>
                  r.Categorie_Prix = Palier(r.Prix, 100000, 300000, 600000)
            /\ ~IsNa(r.Prix) /\ r.Devise = "USD" =>
                  r.Categorie_Prix = Palier(r.Prix, 150, 500, 1000)
            /\ r.Devise \notin {"XAF", "USD"} =>
                  r.Categorie_Prix = "Inconnu"

\* a batch with a price of 100,000 XAF, bucket Medium, and a priced record
\* of another currency, bucket Unknown
C18_Witness ==
    \E i, j \in 1..Len(df_clean) :
        /\ df_clean[i].Prix = 100000 /\ df_clean[i].Devise = "XAF"
        /\ df_clean[i].Categorie_Prix = "Moyen"
        /\ df_clean[j].Prix = 200 /\ df_clean[j].Devise = "UNKNOWN"
        /\ df_clean[j].Categorie_Prix = "Inconnu"

\* the envois of the price-drop digest by the last alert job
EnvoisBaisses == SelectSeq(envois, LAMBDA e : e.digest = "BAISSE_PRIX")

\* the number of stored alerts not older than the day d
AlertesDepuis(d) ==
    Cardinality({i \in 1..Len(alertes) : alertes[i].date_alerte >= d})

EnvoisAffaires == SelectSeq(envois, LAMBDA e : e.digest = "BONNES_AFFAIRES")

\* the ratio f is strictly above 8.0
Depasse8(f) == f \notin {FracNone, FracNaN} /\ f[1] > 8 * f[2]

\* the ratio f is strictly above the ratio g
Superieur(f, g) == f[1] * g[2] > g[1] * f[2]

\* the rows of today whose ratio is strictly above 8.0
Selection ==
    {i \in 1..Len(produits) :
        /\ produits[i].date_scraping = today
        /\ Depasse8(produits[i].rapport_qualite_prix)}

\* C20: the best-value digest selects the product rows of today whose
\* value ratio is strictly above the threshold (8.0 by default), in
\* descending order of ratio, at most 10 of them, and dispatches one
\* notification if and only if the selection is not empty.  A row whose
\* ratio is exactly 8.0, or null, is never selected.
C20_BonnesAffaires ==
    alerte_result # "NONE" =>
        IF Selection = {}
        THEN EnvoisAffaires = <<>>
        ELSE /\ Len(EnvoisAffaires) = 1
             /\ LET e == EnvoisAffaires[1]
                     k == IF Cardinality(Selection) < 10
                          THEN Cardinality(Selection) ELSE 10
                IN  /\ e.n = k
                    /\ Len(e.lignes) = k
                    /\ \A i \in 1..k : Depasse8(e.lignes[i])
                    /\ \A i, j \in 1..k :
                          i < j => ~Superieur(e.lignes[j], e.lignes[i])
                    \* the listed ratios are those of the k best rows
                    /\ \A i \in 1..k :
                          Cardinality({j \in 1..k : e.lignes[j] = e.lignes[i]})
                            <= Cardinality({r \in Selection :
                                 produits[r].rapport_qualite_prix = e.lignes[i]})
                    /\ \A r \in Selection :
                          Superieur(produits[r].rapport_qualite_prix,
                                    e.lignes[k])
                            => \E i \in 1..k :
                                 e.lignes[i] = produits[r].rapport_qualite_prix

\* 11 deals of today beside a row at exactly 8.0 and a row without ratio:
\* one notification lists 10 rows
C20_Witness ==
    /\ alerte_result = "SUCCESS"
    /\ Cardinality(Selection) = 11
    /\ \E i \in 1..Len(produits) :
        /\ produits[i].date_scraping = today
        /\ produits[i].rapport_qualite_prix = <<8, 1>>
    /\ \E i \in 1..Len(produits) :
        /\ produits[i].date_scraping = today
        /\ produits[i].rapport_qualite_prix = FracNone
    /\ Len(EnvoisAffaires) = 1
    /\ EnvoisAffaires[1].n = 10

\* the rows of the table for a product and a day
LignesDuProduit(h, d) ==
    {i \in 1..Len(produits) :
        produits[i].hash_produit = h /\ produits[i].date_scraping = d}

\* the products of the batches
HashesConcurrents == {Md5(TitreA), Md5(TitreB)}

\* two threads looked the product up, saw "not found", and inserted it
CourseSur(h) ==
    \E f, g \in Fils :
        /\ f # g
        /\ h \in fils[f].absents /\ h \in fils[f].inseres
        /\ h \in fils[g].absents /\ h \in fils[g].inseres

\* C21: when two ingestion runs overlap on the same store, an interleaving
\* is reachable in which both look up the same (identity, day), both see
\* "not found" and both insert; the engine has no mutual exclusion of its
\* own, so at most one row per (identity, day) is not guaranteed under
\* concurrent runs.  Stated on every state: when both runs have seen "not
\* found" for a product and inserted it, the table holds two rows of the
\* product for the day, and a product has two rows for a day only then.
C21_CourseInsertion ==
    \A h \in HashesConcurrents :
        /\ CourseSur(h) => Cardinality(LignesDuProduit(h, today)) >= 2
        /\ Cardinality(LignesDuProduit(h, today)) >= 2 => CourseSur(h)

\* the interleaving has happened: two rows of one product for one day
C21_Witness ==
    \E h \in HashesConcurrents :
        /\ CourseSur(h)
        /\ Cardinality(LignesDuProduit(h, today)) = 2

\* C22: for every sequence of page outcomes (timeout, empty page, page with
\* any number of new and duplicate products) and every nb_min_produits >= 0
\* and max_pages >= 0, the pagination loop of scraper_amazon terminates,
\* after at most 2 * max_pages page loads, and never requests a page number
\* greater than max_pages.
C22_BoucleTermine ==
    /\ [](/\ charges.n <= 2 * charges.max_pages
          /\ charges.page <= charges.max_pages)
    /\ (pc = "scraping" ~> pc # "scraping")

\* a call that loaded 2 * max_pages pages, a timeout before each page of
\* results, and has returned
C22_Witness ==
    /\ pc = "pipelines"
    /\ charges.max_pages = MaxPagesParam
    /\ charges.n = 2 * MaxPagesParam
    /\ charges.page = MaxPagesParam

\* C23: scraper_amazon stops scraping as soon as two consecutive page loads
\* were empty or timed out, and any page that is not empty resets the
\* count of them to 0.  A page that timed out is requested again with the
\* same page number; an empty page advances to the next page number.
C23_PagesVides ==
    [][charges'.n = charges.n + 1 =>
        /\ pages_vides_consecutives \in {0, 1}
        /\ charges'.issue \in {"timeout", "vide"} =>
            IF pages_vides_consecutives = 1
            THEN pc' # "scraping"
            ELSE /\ pc' = "scraping"
                 /\ pages_vides_consecutives' = 1
                 /\ page_actuelle' = IF charges'.issue = "timeout"
                                     THEN page_actuelle
                                     ELSE page_actuelle + 1
        /\ charges'.issue = "resultats" =>
            /\ pc' = "scraping"
            /\ pages_vides_consecutives' = 0
            /\ page_actuelle' = page_actuelle + 1]_vars

\* the scraper has stopped on the second of two loads without result, an
\* empty page, before the last page
C23_Witness ==
    /\ pc = "pipelines"
    /\ charges.issue = "vide"
    /\ charges.n = 2
    /\ charges.page = 1
    /\ charges.max_pages = 2

\* C24: after extraire_info_produit, whenever the normalized price is null
\* the currency is null as well, for every raw price text, a text with a
\* currency marker (XAF/CFA, $/USD, EUR) and no parseable number included.
C24_PrixNulDeviseNulle ==
    \A i \in 1..Len(produits_scrapes) :
        produits_scrapes[i].Prix = None
            => produits_scrapes[i].Devise = DeviseNone

\* C25: price parsing strips the thousands separators of the convention of
\* the detected currency before it converts to a number, so the parsed
\* price is the full amount shown: "$1,299.99" parses to 1299.99,
\* "245 000 XAF" to 245000, "1.299,99 EUR" to 1299.99.  On the texts of
\* the convention of each currency (USD and XAF as in the examples, EUR
\* with dots), the price of every record kept from a page is the amount
\* its text shows.
C25_MontantComplet ==
    page_recue # <<>> =>
        \A k \in 1..(Len(produits_scrapes) - Len(avant_page.produits)) :
            LET texte == page_recue[Retenu(k)].texte_prix
                info == produits_scrapes[Len(avant_page.produits) + k]
            IN  \/ /\ info.Devise = "USD" /\ texte.sep \in {"", ","}
                   \/ /\ info.Devise = "XAF" /\ texte.sep \in {"", " "}
                   \/ /\ info.Devise = "EUR" /\ texte.sep \in {"", "."}
                => info.Prix = texte.montant

\* C26: get_db constructs at most one DatabaseManager and returns that same
\* instance on every call, also when the first calls are made concurrently
\* by the background scheduler thread and the UI thread.
C26_InstanceUnique ==
    /\ Cardinality({f \in Fils : fils[f].construit}) <= 1
    /\ Cardinality(UNION {fils[f].retours : f \in Fils}) <= 1

\* the queries of the three digests
RequetesDigests == {"alertes", "nouveaux", "deals"}

\* C27: run_alerte_job returns the status ERROR, with the text of the
\* error, whenever the alert evaluation fails on a store error (a failed
\* alert, new-product or best-value query), and SUCCESS only when all three
\* digests were evaluated.
C27_ErreurStoreRemontee ==
    /\ alerte_erreur \in RequetesDigests => alerte_result = "ERROR"
    /\ alerte_result = "SUCCESS" => alerte_erreur = "None"

\* the rows the product of the last iteration had on earlier days, at a
\* price the new price lies more than 10% below
LignesPlusCheres ==
    {i \in 1..Len(iter.avant.produits) :
        /\ iter.avant.produits[i].hash_produit = HashBase(iter.row)
        /\ iter.avant.produits[i].date_scraping < iter.jour
        /\ iter.avant.produits[i].prix > 0
        /\ ~IsNa(iter.row.Prix)
        /\ (iter.row.Prix - iter.avant.produits[i].prix) * 100
              < (0 - 10) * iter.avant.produits[i].prix}

\* C28: a PriceDrop alert is only ever inserted while a row that was
\* already stored today is updated.  The first sighting of an identity on
\* a new day inserts a fresh row and never produces an alert, however far
\* its price lies below the price stored for the identity on a previous
\* day: price drops between days are not detected.
C28_AlerteDansLeJour ==
    (iter.fait /\ iter.echec = "aucun") =>
        /\ alertes # iter.avant.alertes =>
            /\ iter.existe
            /\ \E i \in 1..Len(iter.avant.produits) :
                /\ iter.avant.produits[i].id = iter.id
                /\ iter.avant.produits[i].hash_produit = HashBase(iter.row)
                /\ iter.avant.produits[i].date_scraping = iter.jour
            /\ Len(produits) = Len(iter.avant.produits)
        /\ ~(\E i \in 1..Len(iter.avant.produits) :
                /\ iter.avant.produits[i].hash_produit = HashBase(iter.row)
                /\ iter.avant.produits[i].date_scraping = iter.jour) =>
            /\ alertes = iter.avant.alertes
            /\ Len(produits) = Len(iter.avant.produits) + 1
            /\ produits[Len(produits)].hash_produit = HashBase(iter.row)
            /\ produits[Len(produits)].date_scraping = iter.jour

\* a product stored on an earlier day is seen for the first time today at
\* a price more than 10% lower: a fresh row, no alert
C28_Witness ==
    /\ iter.fait /\ iter.echec = "aucun"
    /\ ~iter.existe
    /\ LignesPlusCheres # {}
    /\ alertes = iter.avant.alertes
    /\ Len(produits) = Len(iter.avant.produits) + 1

C30_EchecPartielDurable ==
    [][(/\ pc = "except" /\ pc' = "done"
        /\ idx <= Len(df_clean)
        /\ Len(scraping_logs') = Len(scraping_logs) + 1
        /\ durable' # durable) =>
        /\ LET log == scraping_logs'[Len(scraping_logs')]
           IN  /\ log.statut = "ERROR"
               /\ log.nb_produits_scrapes = 0
               /\ log.nb_nouveaux = 0
               /\ log.nb_mises_a_jour = 0
        /\ Len(durable.prix_historique) <= Len(avant.prix_historique)
        /\ Len(durable.produits) <= Len(avant.produits)
        /\ durable'.produits = produits
        /\ durable'.prix_historique = prix_historique
        /\ durable'.alertes = alertes
        /\ durable'.scraping_logs = scraping_logs']_vars

\* a job whose insertion raised after a product row and a history row of
\* the batch were written has logged ERROR with three zeros, and these rows
\* are durable
C30_Witness ==
    /\ pc = "done"
    /\ result.status = "ERROR"
    /\ idx <= Len(df_clean)
    /\ Len(produits) > Len(avant.produits)
    /\ Len(prix_historique) > Len(avant.prix_historique)
    /\ scraping_logs # <<>>
    /\ scraping_logs[Len(scraping_logs)].statut = "ERROR"
    /\ scraping_logs[Len(scraping_logs)].nb_nouveaux = 0
    /\ durable = Tables

====
